---- MODULE Spec2Model ----
(***************************************************************************)
(* Model of the RDAP conformance-check core of icann-rdap-common           *)
(* (src/icann-rdap-common/src/check/mod.rs): the check taxonomy, the       *)
(* Checks tree with its traversal and query operations, and CheckParams.   *)
(***************************************************************************)
EXTENDS Integers, Sequences, FiniteSets, TLC

VARIABLES
  checks,   \* the Checks tree handed to the traversal / query operations
  stack,    \* CheckParams values of the current check pass, one per nested call
  op,       \* name of the operation that ran last ("idle" before any)
  arg,      \* its arguments
  res       \* its result

vars == <<checks, stack, op, arg, res>>

\* Option<T>
None == <<>>
Some(v) == <<v>>

(***************************************************************************)
(* Check taxonomy                                                          *)
(***************************************************************************)

\* enum CheckClass, in declaration order
CheckClass ==
  {"Informational", "SpecificationNote", "StdWarning", "StdError", "Cidr0Error", "IcannError"}

\* enum RdapStructure with its Display form (strum serialize_all = "snake_case")
RdapStructureDisplay ==
  [ Autnum |-> "autnum", Cidr0 |-> "cidr0", Domain |-> "domain",
    DomainSearchResults |-> "domain_search_results", Entity |-> "entity",
    EntitySearchResults |-> "entity_search_results", Events |-> "events",
    Error |-> "error", Help |-> "help", Handle |-> "handle",
    HttpData |-> "http_data", IpNetwork |-> "ip_network", Link |-> "link",
    Links |-> "links", Nameserver |-> "nameserver",
    NameserverSearchResults |-> "nameserver_search_results",
    NoticeOrRemark |-> "notice_or_remark", Notices |-> "notices",
    PublidIds |-> "publid_ids", Port43 |-> "port43",
    RdapConformance |-> "rdap_conformance", Redacted |-> "redacted",
    Remarks |-> "remarks", SecureDns |-> "secure_dns", Status |-> "status" ]

RdapStructure == DOMAIN RdapStructureDisplay

\* rdap_struct.to_string()
to_string(rdap_struct) == RdapStructureDisplay[rdap_struct]

\* enum Check: identifier |-> numeric code
CheckCode ==
  [ RdapConformanceMissing |-> 100,
    RdapConformanceInvalidParent |-> 101,
    UnknownExtention |-> 102,
    LinkMissingValueProperty |-> 200,
    LinkMissingRelProperty |-> 201,
    LinkRelatedHasNoType |-> 202,
    LinkRelatedIsNotRdap |-> 203,
    LinkSelfHasNoType |-> 204,
    LinkSelfIsNotRdap |-> 205,
    LinkObjectClassHasNoSelf |-> 206,
    LinkMissingHrefProperty |-> 207,
    VariantEmptyDomain |-> 300,
    EventDateIsAbsent |-> 400,
    EventDateIsNotRfc3339 |-> 401,
    EventActionIsAbsent |-> 402,
    NoticeOrRemarkDescriptionIsAbsent |-> 500,
    NoticeOrRemarkDescriptionIsString |-> 501,
    HandleIsEmpty |-> 600,
    HandleIsNotString |-> 601,
    StatusIsEmpty |-> 700,
    RoleIsEmpty |-> 800,
    UnknownRole |-> 801,
    RoleIsString |-> 802,
    LdhNameInvalid |-> 900,
    LdhNameDocumentation |-> 901,
    LdhNameDoesNotMatchUnicode |-> 902,
    UnicodeNameInvalidDomain |-> 1000,
    UnicodeNameInvalidUnicode |-> 1001,
    NetworkOrAutnumNameIsEmpty |-> 1100,
    NetworkOrAutnumNameIsNotString |-> 1101,
    NetworkOrAutnumTypeIsEmpty |-> 1200,
    NetworkOrAutnumTypeIsNotString |-> 1201,
    IpAddressMissing |-> 1300,
    IpAddressMalformed |-> 1301,
    IpAddressEndBeforeStart |-> 1302,
    IpAddressVersionMismatch |-> 1303,
    IpAddressMalformedVersion |-> 1304,
    IpAddressListIsEmpty |-> 1305,
    IpAddressThisNetwork |-> 1306,
    IpAddressPrivateUse |-> 1307,
    IpAddressSharedNat |-> 1308,
    IpAddressLoopback |-> 1309,
    IpAddressLinkLocal |-> 1310,
    IpAddressUniqueLocal |-> 1311,
    IpAddressDocumentationNet |-> 1312,
    IpAddressReservedNet |-> 1313,
    IpAddressArrayIsString |-> 1314,
    IpVersionIsNotString |-> 1315,
    AutnumMissing |-> 1400,
    AutnumEndBeforeStart |-> 1401,
    AutnumPrivateUse |-> 1402,
    AutnumDocumentation |-> 1403,
    AutnumReserved |-> 1404,
    VcardArrayIsEmpty |-> 1500,
    VcardHasNoFn |-> 1501,
    VcardFnIsEmpty |-> 1502,
    Port43IsEmpty |-> 1600,
    PublicIdTypeIsAbsent |-> 1700,
    PublicIdIdentifierIsAbsent |-> 1701,
    CorsAllowOriginRecommended |-> 1800,
    CorsAllowOriginStarRecommended |-> 1801,
    CorsAllowCredentialsNotRecommended |-> 1802,
    ContentTypeIsAbsent |-> 1803,
    ContentTypeIsNotRdap |-> 1804,
    Cidr0V4PrefixIsAbsent |-> 1900,
    Cidr0V4LengthIsAbsent |-> 1901,
    Cidr0V6PrefixIsAbsent |-> 1902,
    Cidr0V6LengthIsAbsent |-> 1903,
    MustUseHttps |-> 2000,
    AllowOriginNotStar |-> 2001,
    CnameWithoutARecords |-> 2100,
    CnameWithoutAAAARecords |-> 2101,
    NoARecords |-> 2102,
    NoAAAARecords |-> 2103,
    ExpectedExtensionNotFound |-> 2104,
    Ipv6SupportRequiredByIcann |-> 2105,
    DelegationSignedIsString |-> 2200,
    ZoneSignedIsString |-> 2201,
    MaxSigLifeIsString |-> 2202,
    KeyDatumAlgorithmIsString |-> 2203,
    KeyDatumAlgorithmIsOutOfRange |-> 2204,
    KeyDatumFlagsIsString |-> 2205,
    KeyDatumFlagsIsOutOfRange |-> 2206,
    KeyDatumProtocolIsString |-> 2207,
    KeyDatumProtocolIsOutOfRange |-> 2208,
    DsDatumAlgorithmIsString |-> 2213,
    DsDatumAlgorithmIsOutOfRange |-> 2214,
    DsDatumKeyTagIsString |-> 2215,
    DsDatumKeyTagIsOutOfRange |-> 2216,
    DsDatumDigestTypeIsString |-> 2217,
    DsDatumDigestTypeIsOutOfRange |-> 2218 ]

Check == DOMAIN CheckCode

\* the match of Check::check_item: one arm per group, no default arm
CheckClassOf(self) ==

  CASE self \in {"RdapConformanceMissing", "RdapConformanceInvalidParent"} -> "StdError"
    [] self \in {"UnknownExtention"} -> "StdWarning"
    [] self \in {"LinkMissingValueProperty", "LinkMissingRelProperty"} -> "StdError"
    [] self \in {"LinkRelatedHasNoType", "LinkRelatedIsNotRdap", "LinkSelfHasNoType", "LinkSelfIsNotRdap"} -> "StdWarning"
    [] self \in {"LinkObjectClassHasNoSelf"} -> "SpecificationNote"
    [] self \in {"LinkMissingHrefProperty"} -> "StdError"
    [] self \in {"VariantEmptyDomain"} -> "StdWarning"
    [] self \in {"EventDateIsAbsent", "EventDateIsNotRfc3339", "EventActionIsAbsent", "NoticeOrRemarkDescriptionIsAbsent", "NoticeOrRemarkDescriptionIsString"} -> "StdError"
    [] self \in {"HandleIsEmpty"} -> "StdWarning"
    [] self \in {"HandleIsNotString"} -> "StdError"
    [] self \in {"StatusIsEmpty", "RoleIsEmpty"} -> "StdError"
    [] self \in {"UnknownRole"} -> "StdWarning"
    [] self \in {"RoleIsString", "LdhNameInvalid"} -> "StdError"
    [] self \in {"LdhNameDocumentation"} -> "Informational"
    [] self \in {"LdhNameDoesNotMatchUnicode"} -> "StdWarning"
    [] self \in {"UnicodeNameInvalidDomain", "UnicodeNameInvalidUnicode"} -> "StdError"
    [] self \in {"NetworkOrAutnumNameIsEmpty"} -> "StdWarning"
    [] self \in {"NetworkOrAutnumNameIsNotString"} -> "StdError"
    [] self \in {"NetworkOrAutnumTypeIsEmpty"} -> "StdWarning"
    [] self \in {"NetworkOrAutnumTypeIsNotString"} -> "StdError"
    [] self \in {"IpAddressMissing"} -> "StdWarning"
    [] self \in {"IpAddressMalformed"} -> "StdError"
    [] self \in {"IpAddressEndBeforeStart", "IpAddressVersionMismatch"} -> "StdWarning"
    [] self \in {"IpAddressMalformedVersion", "IpAddressListIsEmpty"} -> "StdError"
    [] self \in {"IpAddressThisNetwork", "IpAddressPrivateUse", "IpAddressSharedNat", "IpAddressLoopback", "IpAddressLinkLocal", "IpAddressUniqueLocal", "IpAddressDocumentationNet", "IpAddressReservedNet"} -> "Informational"
    [] self \in {"IpAddressArrayIsString"} -> "StdError"
    [] self \in {"IpVersionIsNotString"} -> "StdError"
    [] self \in {"AutnumMissing", "AutnumEndBeforeStart"} -> "StdWarning"
    [] self \in {"AutnumPrivateUse", "AutnumDocumentation", "AutnumReserved"} -> "Informational"
    [] self \in {"VcardArrayIsEmpty", "VcardHasNoFn"} -> "StdError"
    [] self \in {"VcardFnIsEmpty"} -> "SpecificationNote"
    [] self \in {"Port43IsEmpty", "PublicIdTypeIsAbsent", "PublicIdIdentifierIsAbsent"} -> "StdError"
    [] self \in {"CorsAllowOriginRecommended", "CorsAllowOriginStarRecommended", "CorsAllowCredentialsNotRecommended"} -> "StdWarning"
    [] self \in {"ContentTypeIsAbsent", "ContentTypeIsNotRdap"} -> "StdError"
    [] self \in {"Cidr0V4PrefixIsAbsent", "Cidr0V4LengthIsAbsent", "Cidr0V6PrefixIsAbsent", "Cidr0V6LengthIsAbsent"} -> "Cidr0Error"
    [] self \in {"MustUseHttps", "AllowOriginNotStar"} -> "IcannError"
    [] self \in {"CnameWithoutARecords", "CnameWithoutAAAARecords"} -> "StdError"
    [] self \in {"NoARecords", "NoAAAARecords"} -> "SpecificationNote"
    [] self \in {"ExpectedExtensionNotFound"} -> "StdError"
    [] self \in {"Ipv6SupportRequiredByIcann"} -> "IcannError"
    [] self \in {"DelegationSignedIsString", "ZoneSignedIsString", "MaxSigLifeIsString", "KeyDatumAlgorithmIsString", "KeyDatumAlgorithmIsOutOfRange", "KeyDatumFlagsIsString", "KeyDatumFlagsIsOutOfRange", "KeyDatumProtocolIsString", "KeyDatumProtocolIsOutOfRange", "DsDatumAlgorithmIsString", "DsDatumAlgorithmIsOutOfRange", "DsDatumKeyTagIsString", "DsDatumKeyTagIsOutOfRange", "DsDatumDigestTypeIsString", "DsDatumDigestTypeIsOutOfRange"} -> "StdError"

\* faulty variant: the secure-DNS band falls through to a class outside CheckClass
check_item_fallthrough(self) ==
  IF CheckCode[self] >= 2200
    THEN [check_class |-> "Unclassified", check |-> self]
    ELSE [check_class |-> CheckClassOf(self), check |-> self]

\* faulty variant: the class of VariantEmptyDomain drifts from the match
check_item_drift(self) ==
  IF self = "VariantEmptyDomain"
    THEN [check_class |-> "Informational", check |-> self]
    ELSE [check_class |-> CheckClassOf(self), check |-> self]

\* faulty variant: empty status and role are classified like an empty handle
check_item_empty_warning(self) ==
  IF self \in {"StatusIsEmpty", "RoleIsEmpty"}
    THEN [check_class |-> "StdWarning", check |-> self]
    ELSE [check_class |-> CheckClassOf(self), check |-> self]

\* faulty variant: the special-use addresses are classified as warnings
check_item_special_use_warning(self) ==
  IF CheckCode[self] \in 1306..1313
    THEN [check_class |-> "StdWarning", check |-> self]
    ELSE [check_class |-> CheckClassOf(self), check |-> self]

\* faulty variant: the conformance findings are classified as notes
check_item_conformance_note(self) ==
  IF CheckCode[self] \in 100..199
    THEN [check_class |-> "SpecificationNote", check |-> self]
    ELSE [check_class |-> CheckClassOf(self), check |-> self]

\* Check::check_item
check_item(self) ==
  [check_class |-> CheckClassOf(self), check |-> self]

\* enum CheckClass in declaration order: the derived PartialOrd / Ord compare
\* the variants by their position in the declaration
CheckClassDecl ==
  <<"Informational", "SpecificationNote", "StdWarning", "StdError", "Cidr0Error", "IcannError">>

discriminant(check_class) ==
  CHOOSE i \in 1..Len(CheckClassDecl) : CheckClassDecl[i] = check_class

\* Ord::cmp on integers
int_cmp(a, b) == IF a < b THEN "Less" ELSE IF a = b THEN "Equal" ELSE "Greater"

\* faulty variant: the order of the declaration is reversed
class_cmp_reversed(a, b) == int_cmp(discriminant(b), discriminant(a))

\* derived Ord::cmp of CheckClass
class_cmp(a, b) == int_cmp(discriminant(a), discriminant(b))

\* faulty variant: every secure-DNS finding collapses to one generic code
code_collapsed(check) ==
  IF CheckCode[check] >= 2200 THEN 2200 ELSE CheckCode[check]

\* check as usize: the explicit discriminant of the identifier
code(check) == CheckCode[check]

\* derived Ord::cmp of Check: by discriminant
check_cmp(a, b) == int_cmp(code(a), code(b))

\* faulty variant: the fields are compared in the order check, check_class
item_cmp_check_first(a, b) ==
  IF check_cmp(a.check, b.check) # "Equal"
    THEN check_cmp(a.check, b.check)
    ELSE class_cmp(a.check_class, b.check_class)

\* derived Ord::cmp of CheckItem: the fields in declaration order, check_class
\* first and then check
item_cmp(a, b) ==
  IF class_cmp(a.check_class, b.check_class) # "Equal"
    THEN class_cmp(a.check_class, b.check_class)
    ELSE check_cmp(a.check, b.check)

\* derived PartialEq::eq of CheckItem: every field equal
item_eq(a, b) == a.check_class = b.check_class /\ a.check = b.check

(***************************************************************************)
(* Checks tree                                                             *)
(***************************************************************************)

\* struct Checks { rdap_struct, items, sub_checks }
Checks(rdap_struct, items, sub_checks) ==
  [rdap_struct |-> rdap_struct, items |-> items, sub_checks |-> sub_checks]

\* struct CheckItem { check_class, check }: the fields are public, so a tree may
\* hold any pairing (the unit tests build such items by hand)
CheckItem(check_class, check) == [check_class |-> check_class, check |-> check]

\* Bound of the trees examined: number of nodes plus number of items.
MaxSize == 5

\* Labels and items the examined trees are built from (those of the unit tests).
LabelPool == {"Entity", "Autnum"}
ItemPool ==
  { CheckItem("Informational", "RdapConformanceInvalidParent"),
    CheckItem("StdWarning", "VariantEmptyDomain") }

\* Filters and identifiers the operations are called with.
ClassFilters == SUBSET {"Informational", "StdWarning"}
CheckQueries == {"RdapConformanceInvalidParent", "VariantEmptyDomain", "LinkSelfHasNoType"}

RECURSIVE ItemSeqs(_)
ItemSeqs(n) ==
  IF n = 0 THEN {<<>>}
  ELSE {Append(s, it) : s \in ItemSeqs(n - 1), it \in ItemPool}

RECURSIVE TreesOfSize(_), ForestsOfSize(_)
\* all trees with exactly n nodes-plus-items
TreesOfSize(n) ==
  UNION { { Checks(l, is, f) : l \in LabelPool, is \in ItemSeqs(i), f \in ForestsOfSize(n - 1 - i) }
          : i \in 0..(n - 1) }
\* all sequences of trees with exactly n nodes-plus-items in total
ForestsOfSize(n) ==
  IF n = 0 THEN {<<>>}
  ELSE UNION { { <<t>> \o f : t \in TreesOfSize(a), f \in ForestsOfSize(n - a) } : a \in 1..n }

Trees == UNION { TreesOfSize(n) : n \in 1..MaxSize }

\* Checks::sub: position of the first child found by iter().find(), 0 if none
RECURSIVE find(_, _, _)
find(sub_checks, rdap_struct, i) ==
  IF i > Len(sub_checks) THEN 0
  ELSE IF sub_checks[i].rdap_struct = rdap_struct THEN i
  ELSE find(sub_checks, rdap_struct, i + 1)

\* faulty variant: the last matching child instead of the first
RECURSIVE rfind(_, _, _)
rfind(sub_checks, rdap_struct, i) ==
  IF i < 1 THEN 0
  ELSE IF sub_checks[i].rdap_struct = rdap_struct THEN i
  ELSE rfind(sub_checks, rdap_struct, i - 1)

sub_last(self, rdap_struct) ==
  LET i == rfind(self.sub_checks, rdap_struct, Len(self.sub_checks))
  IN  IF i = 0 THEN None ELSE Some([ref |-> i, node |-> self.sub_checks[i]])

\* Checks::sub; the returned reference is the position in self.sub_checks it
\* points to, together with the node found there
sub(self, rdap_struct) ==
  LET i == find(self.sub_checks, rdap_struct, 1)
  IN  IF i = 0 THEN None ELSE Some([ref |-> i, node |-> self.sub_checks[i]])

\* format!("{}/{}", parent_tree.unwrap_or_else(|| "[ROOT]".to_string()), rdap_struct)
\* faulty variant: the parent path is dropped
struct_tree_no_parent(parent_tree, rdap_struct) ==
  "[ROOT]" \o "/" \o to_string(rdap_struct)

struct_tree(parent_tree, rdap_struct) ==
  (IF parent_tree = None THEN "[ROOT]" ELSE parent_tree[1]) \o "/" \o to_string(rdap_struct)

\* the visitor f(&struct_tree, item): records what it is called with
visit(log, path, item) == Append(log, [path |-> path, item |-> item])

\* faulty variant: the class filter is not applied
RECURSIVE items_loop_unfiltered(_, _, _, _, _)
items_loop_unfiltered(items, classes, path, i, acc) ==
  IF i > Len(items) THEN acc
  ELSE items_loop_unfiltered(items, classes, path, i + 1,
         [found |-> TRUE, log |-> visit(acc.log, path, items[i])])

\* for item in &checks.items { if classes.contains(..) { f(..); found = true } }
RECURSIVE items_loop(_, _, _, _, _)
items_loop(items, classes, path, i, acc) ==
  IF i > Len(items) THEN acc
  ELSE items_loop(items, classes, path, i + 1,
         IF items[i].check_class \in classes
           THEN [found |-> TRUE, log |-> visit(acc.log, path, items[i])]
           ELSE acc)

RECURSIVE traverse_checks(_, _, _, _), subs_loop(_, _, _, _, _)

\* faulty variant: found is assigned each child's result instead of or-ed
RECURSIVE subs_loop_assign(_, _, _, _, _)
subs_loop_assign(sub_checks, classes, path, i, acc) ==
  IF i > Len(sub_checks) THEN acc
  ELSE LET r == traverse_checks(sub_checks[i], classes, Some(path), acc.log)
       IN  subs_loop_assign(sub_checks, classes, path, i + 1,
             [found |-> r.found, log |-> r.log])

\* for sub_checks in &checks.sub_checks { if traverse_checks(..) { found = true } }
subs_loop(sub_checks, classes, path, i, acc) ==
  IF i > Len(sub_checks) THEN acc
  ELSE LET r == traverse_checks(sub_checks[i], classes, Some(path), acc.log)
       IN  subs_loop(sub_checks, classes, path, i + 1,
             [found |-> acc.found \/ r.found, log |-> r.log])

\* faulty variant: the children are traversed before the node's own items
traverse_checks_children_first(checks_, classes, parent_tree, log) ==
  LET path == struct_tree(parent_tree, checks_.rdap_struct)
      kids == subs_loop(checks_.sub_checks, classes, path, 1, [found |-> FALSE, log |-> log])
  IN  items_loop(checks_.items, classes, path, 1, kids)

\* traverse_checks; log is what the visitor has recorded so far, the result is
\* the returned flag with the visitor's record after the call
traverse_checks(checks_, classes, parent_tree, log) ==
  LET path == struct_tree(parent_tree, checks_.rdap_struct)
      own  == items_loop(checks_.items, classes, path, 1, [found |-> FALSE, log |-> log])
  IN  subs_loop(checks_.sub_checks, classes, path, 1, own)

\* faulty variant: the descendants are searched as well
RECURSIVE is_checked_item_deep(_, _)
is_checked_item_deep(check, checks_) ==
  \/ \E i \in 1..Len(checks_.items) : checks_.items[i].check = check
  \/ \E k \in 1..Len(checks_.sub_checks) : is_checked_item_deep(check, checks_.sub_checks[k])

\* faulty variant: items are matched by class instead of by identifier
is_checked_item_by_class(check, checks_) ==
  \E i \in 1..Len(checks_.items) : checks_.items[i].check_class = check_item(check).check_class

\* is_checked_item: checks.items.iter().any(|c| c.check == check)
is_checked_item(check, checks_) ==
  \E i \in 1..Len(checks_.items) : checks_.items[i].check = check

\* is_checked: checks.iter().any(|c| is_checked_item(check, c))
is_checked(check, list) ==
  \E k \in 1..Len(list) : is_checked_item(check, list[k])

(***************************************************************************)
(* CheckParams                                                             *)
(***************************************************************************)

\* enum RdapResponse: variant |-> the type it wraps
RdapResponseVariant ==
  [ Entity |-> "Entity", Domain |-> "Domain", Nameserver |-> "Nameserver",
    Autnum |-> "Autnum", Network |-> "Network",
    DomainSearchResults |-> "DomainSearchResults",
    EntitySearchResults |-> "EntitySearchResults",
    NameserverSearchResults |-> "NameserverSearchResults",
    ErrorResponse |-> "Rfc9083Error", Help |-> "Help" ]

\* Bound: number of distinct responses per variant.
MaxResponses == 2

\* A response: its variant and which of the responses of that variant it is.
Responses == [variant : DOMAIN RdapResponseVariant, id : 1..MaxResponses]

\* RdapResponse::get_type: the TypeId of the wrapped type
get_type(rdap) == RdapResponseVariant[rdap.variant]

\* Parent types handed to from_parent by the nested calls.
ParentTypes == {"Domain", "Entity", "Link", "Event"}

\* struct CheckParams { do_subchecks, root, parent_type, allow_unreg_ext }
CheckParams(do_subchecks, root, parent_type, allow_unreg_ext) ==
  [do_subchecks |-> do_subchecks, root |-> root,
   parent_type |-> parent_type, allow_unreg_ext |-> allow_unreg_ext]

\* faulty variant: the derived params start again from the top-level defaults
from_parent_defaults(self, parent_type) ==
  CheckParams(TRUE, self.root, parent_type, FALSE)

\* CheckParams::from_parent
from_parent(self, parent_type) ==
  CheckParams(self.do_subchecks, self.root, parent_type, self.allow_unreg_ext)

\* faulty variant: the parent type is always that of a domain
for_rdap_domain(rdap) ==
  CheckParams(TRUE, rdap, "Domain", FALSE)

\* CheckParams::for_rdap
for_rdap(rdap) ==
  CheckParams(TRUE, rdap, get_type(rdap), FALSE)

(***************************************************************************)
(* Operations on a Checks tree.  The operations are pure functions of the  *)
(* tree, so a behaviour examines one call on one tree.                     *)
(***************************************************************************)

Init ==
  /\ checks \in Trees
  /\ stack = <<>>
  /\ op = "idle"
  /\ arg = <<>>
  /\ res = <<>>

\* traverse_checks(&checks, classes, None, &mut visitor)
TraverseChecks ==
  /\ op = "idle"
  /\ \E classes \in ClassFilters :
       /\ arg' = [classes |-> classes]
       /\ res' = traverse_checks(checks, classes, None, <<>>)
  /\ op' = "traverse_checks"
  /\ UNCHANGED <<checks, stack>>

\* is_checked_item(check, &checks)
IsCheckedItem ==
  /\ op = "idle"
  /\ \E check \in CheckQueries :
       /\ arg' = [check |-> check]
       /\ res' = is_checked_item(check, checks)
  /\ op' = "is_checked_item"
  /\ UNCHANGED <<checks, stack>>

\* is_checked(check, &list) on the tree alone, on its list of sub-checks, and
\* on both together
IsChecked ==
  /\ op = "idle"
  /\ \E check \in CheckQueries :
       \E list \in {<<checks>>, checks.sub_checks, <<checks>> \o checks.sub_checks} :
         /\ arg' = [check |-> check, list |-> list]
         /\ res' = is_checked(check, list)
  /\ op' = "is_checked"
  /\ UNCHANGED <<checks, stack>>

\* checks.sub(rdap_struct)
Sub ==
  /\ op = "idle"
  /\ \E rdap_struct \in LabelPool :
       /\ arg' = [rdap_struct |-> rdap_struct]
       /\ res' = sub(checks, rdap_struct)
  /\ op' = "sub"
  /\ UNCHANGED <<checks, stack>>

Next == TraverseChecks \/ IsCheckedItem \/ IsChecked \/ Sub

Spec == Init /\ [][Next]_vars

(***************************************************************************)
(* Taxonomy operations                                                     *)
(***************************************************************************)

\* the tree is not used by the taxonomy and CheckParams operations
NoChecks == Checks("Help", <<>>, <<>>)

InitTax ==
  /\ checks = NoChecks
  /\ stack = <<>>
  /\ op = "idle"
  /\ arg = <<>>
  /\ res = <<>>

\* check.check_item() for any identifier of the taxonomy
CheckItemCall ==
  /\ op = "idle"
  /\ \E check \in Check :
       /\ arg' = check
       /\ res' = check_item(check)
  /\ op' = "check_item"
  /\ UNCHANGED <<checks, stack>>

\* rdap_struct.to_string() for any structure label
ToStringCall ==
  /\ op = "idle"
  /\ \E rdap_struct \in RdapStructure :
       /\ arg' = rdap_struct
       /\ res' = to_string(rdap_struct)
  /\ op' = "to_string"
  /\ UNCHANGED <<checks, stack>>

\* Identifiers and items the comparisons are tried on: every class paired with
\* identifiers of one band and of different bands.
CmpChecks ==
  {"RdapConformanceMissing", "RdapConformanceInvalidParent", "VariantEmptyDomain",
   "LdhNameDocumentation"}
CmpItems == { CheckItem(c, k) : c \in CheckClass, k \in CmpChecks }

\* a.cmp(&b) for two classes
ClassCmpCall ==
  /\ op = "idle"
  /\ \E a \in CheckClass, b \in CheckClass :
       /\ arg' = [a |-> a, b |-> b]
       /\ res' = class_cmp(a, b)
  /\ op' = "class_cmp"
  /\ UNCHANGED <<checks, stack>>

\* a == b and a.cmp(&b) for two items
ItemCmpCall ==
  /\ op = "idle"
  /\ \E a \in CmpItems, b \in CmpItems :
       /\ arg' = [a |-> a, b |-> b]
       /\ res' = [eq |-> item_eq(a, b), ord |-> item_cmp(a, b)]
  /\ op' = "item_cmp"
  /\ UNCHANGED <<checks, stack>>

\* CheckItem { check_class, check }: an item written as a struct literal, as
\* the unit tests do
ItemLiteral ==
  /\ op = "idle"
  /\ \E check_class \in CheckClass, check \in CmpChecks :
       /\ arg' = check
       /\ res' = CheckItem(check_class, check)
  /\ op' = "item_literal"
  /\ UNCHANGED <<checks, stack>>

\* Start addresses of the networks examined, as the numbers of their dotted
\* form; 999.1.1.1 is no address.
SampleAddrs ==
  { <<127, 0, 0, 1>>, <<999, 1, 1, 1>>, <<0, 0, 0, 0>>, <<10, 0, 0, 0>>,
    <<172, 16, 0, 0>>, <<192, 168, 0, 0>>, <<100, 64, 0, 0>>, <<169, 254, 0, 0>>,
    <<192, 0, 2, 0>>, <<198, 51, 100, 0>>, <<203, 0, 113, 0>>, <<240, 0, 0, 0>>,
    <<8, 8, 8, 8>> }

\* the special-use finding of an IPv4 address, if any
special_use(a) ==
  IF a[1] = 0 THEN Some("IpAddressThisNetwork")
  ELSE IF a[1] = 10 \/ (a[1] = 172 /\ a[2] \in 16..31) \/ (a[1] = 192 /\ a[2] = 168)
    THEN Some("IpAddressPrivateUse")
  ELSE IF a[1] = 100 /\ a[2] \in 64..127 THEN Some("IpAddressSharedNat")
  ELSE IF a[1] = 127 THEN Some("IpAddressLoopback")
  ELSE IF a[1] = 169 /\ a[2] = 254 THEN Some("IpAddressLinkLocal")
  ELSE IF \/ (a[1] = 192 /\ a[2] = 0 /\ a[3] = 2)
          \/ (a[1] = 198 /\ a[2] = 51 /\ a[3] = 100)
          \/ (a[1] = 203 /\ a[2] = 0 /\ a[3] = 113)
    THEN Some("IpAddressDocumentationNet")
  ELSE IF a[1] >= 240 THEN Some("IpAddressReservedNet")
  ELSE None

\* the items a network's start address gives rise to
start_address_checks(a) ==
  IF \E i \in 1..4 : a[i] > 255 THEN <<check_item("IpAddressMalformed")>>
  ELSE IF special_use(a) = None THEN <<>>
  ELSE <<check_item(special_use(a)[1])>>

\* the network rule applied to a start address
StartAddressChecks ==
  /\ op = "idle"
  /\ \E a \in SampleAddrs :
       /\ arg' = a
       /\ res' = start_address_checks(a)
  /\ op' = "start_address_checks"
  /\ UNCHANGED <<checks, stack>>

NextTax ==
  \/ CheckItemCall
  \/ ToStringCall
  \/ ClassCmpCall
  \/ ItemCmpCall
  \/ ItemLiteral
  \/ StartAddressChecks

SpecTax == InitTax /\ [][NextTax]_vars

(***************************************************************************)
(* A check pass: the params of the top-level call and of the nested calls  *)
(***************************************************************************)

\* Bound: depth of nested calls of one check pass.
MaxChain == 3

InitParams ==
  /\ checks = NoChecks
  /\ stack = <<>>
  /\ op = "idle"
  /\ arg = <<>>
  /\ res = <<>>

\* the caller starts a pass with CheckParams::for_rdap(&rdap)
ForRdapCall ==
  /\ stack = <<>>
  /\ \E rdap \in Responses :
       /\ arg' = rdap
       /\ res' = for_rdap(rdap)
       /\ stack' = <<for_rdap(rdap)>>
  /\ op' = "for_rdap"
  /\ UNCHANGED checks

\* the caller starts a pass with a CheckParams struct literal
LiteralCall ==
  /\ stack = <<>>
  /\ \E do_subchecks \in BOOLEAN, allow_unreg_ext \in BOOLEAN,
        root \in Responses, parent_type \in ParentTypes :
       LET p == CheckParams(do_subchecks, root, parent_type, allow_unreg_ext)
       IN  /\ arg' = root
           /\ res' = p
           /\ stack' = <<p>>
  /\ op' = "literal"
  /\ UNCHANGED checks

\* a nested call is made with params.from_parent(parent_type)
FromParentCall ==
  /\ stack # <<>>
  /\ Len(stack) < MaxChain
  /\ \E parent_type \in ParentTypes :
       LET p == from_parent(stack[Len(stack)], parent_type)
       IN  /\ arg' = parent_type
           /\ res' = p
           /\ stack' = Append(stack, p)
  /\ op' = "from_parent"
  /\ UNCHANGED checks

\* the nested call returns; its params are dropped
Return ==
  /\ Len(stack) > 1
  /\ stack' = SubSeq(stack, 1, Len(stack) - 1)
  /\ op' = "return"
  /\ arg' = <<>>
  /\ res' = <<>>
  /\ UNCHANGED checks

NextParams == ForRdapCall \/ LiteralCall \/ FromParentCall \/ Return

SpecParams == InitParams /\ [][NextParams]_vars

(***************************************************************************)
(* The check engine: the dispatch of RdapResponse::get_checks over the     *)
(* response variants, the conformance rules of the object classes it       *)
(* forwards to, and the extension normalization of the test harness.       *)
(***************************************************************************)

\* ExtensionId: the registered extension identifiers, with their Display form
ExtensionIdDisplay ==
  [ RdapLevel0 |-> "rdap_level_0",
    Cidr0 |-> "cidr0",
    IcannRdapResponseProfile0 |-> "icann_rdap_response_profile_0",
    IcannRdapResponseProfile1 |-> "icann_rdap_response_profile_1",
    IcannRdapTechnicalImplementationGuide0 |-> "icann_rdap_technical_implementation_guide_0",
    IcannRdapTechnicalImplementationGuide1 |-> "icann_rdap_technical_implementation_guide_1",
    NroRdapProfile0 |-> "nro_rdap_profile_0",
    NroRdapProfileAsnFlat0 |-> "nro_rdap_profile_asn_flat_0",
    NroRdapProfileAsnHierarchical0 |-> "nro_rdap_profile_asn_hierarchical_0" ]

\* ExtensionId::from_str(ext).is_ok()
from_str_is_ok(ext) == \E id \in DOMAIN ExtensionIdDisplay : ExtensionIdDisplay[id] = ext

\* Bound: number of objects nested in a response.
MaxNested == 3

\* rdapConformance of an object: absent, or the declared extension identifiers
ConformancePool == {None, Some(<<"rdap_level_0">>), Some(<<"rdap_level_0", "foo">>)}

\* the objects nested in an object: each with its rdapConformance and its own
\* nested objects, n objects in all
RECURSIVE NestedOfSize(_)
NestedOfSize(n) ==
  IF n = 0 THEN {<<>>}
  ELSE UNION { { <<[conformance |-> c, nested |-> inner]>> \o rest :
                   c \in ConformancePool,
                   inner \in NestedOfSize(a - 1),
                   rest \in NestedOfSize(n - a) } : a \in 1..n }

NestedPool == UNION { NestedOfSize(n) : n \in 0..MaxNested }

\* the responses checked: help and error responses hold no objects
EngineResponses ==
  { [variant |-> v, conformance |-> c, nested |-> n] :
      v \in DOMAIN RdapResponseVariant \ {"Help", "ErrorResponse"},
      c \in ConformancePool, n \in NestedPool }
  \cup
  { [variant |-> v, conformance |-> c, nested |-> <<>>] :
      v \in {"Help", "ErrorResponse"}, c \in ConformancePool }

\* the object a response wraps
body(rdap) == [conformance |-> rdap.conformance, nested |-> rdap.nested]

\* the structure label of the Checks node of each type
StructOf ==
  [ Entity |-> "Entity", Domain |-> "Domain", Nameserver |-> "Nameserver",
    Autnum |-> "Autnum", Network |-> "IpNetwork",
    DomainSearchResults |-> "DomainSearchResults",
    EntitySearchResults |-> "EntitySearchResults",
    NameserverSearchResults |-> "NameserverSearchResults",
    Rfc9083Error |-> "Error", Help |-> "Help" ]

\* the type of the objects nested in an object of a type: search results hold
\* their results, object classes hold entities
NestedType(type) ==
  CASE type = "DomainSearchResults" -> "Domain"
    [] type = "NameserverSearchResults" -> "Nameserver"
    [] OTHER -> "Entity"

\* one UnknownExtention item per declared identifier that is not registered
RECURSIVE extension_items(_, _)
extension_items(exts, i) ==
  IF i > Len(exts) THEN <<>>
  ELSE (IF from_str_is_ok(exts[i]) THEN <<>> ELSE <<check_item("UnknownExtention")>>)
         \o extension_items(exts, i + 1)

\* the conformance rules of an object: rdapConformance is required on the root
\* and must not appear on another object; every declared extension must be
\* registered unless allow_unreg_ext is set
conformance_items(type, obj, params) ==
  LET is_root == type = get_type(params.root) /\ obj = body(params.root)
  IN  (IF is_root /\ obj.conformance = None
         THEN <<check_item("RdapConformanceMissing")>> ELSE <<>>)
      \o (IF ~is_root /\ obj.conformance # None
            THEN <<check_item("RdapConformanceInvalidParent")>> ELSE <<>>)
      \o (IF obj.conformance # None /\ ~params.allow_unreg_ext
            THEN extension_items(obj.conformance[1], 1) ELSE <<>>)

\* get_checks of the type a response variant wraps, and of the nested objects
RECURSIVE type_get_checks(_, _, _)
type_get_checks(type, obj, params) ==
  Checks(StructOf[type],
         conformance_items(type, obj, params),
         IF params.do_subchecks
           THEN [k \in 1..Len(obj.nested) |->
                   type_get_checks(NestedType(type), obj.nested[k], from_parent(params, type))]
           ELSE <<>>)

\* e.get_checks(params) in an arm of the dispatch: the implementation called,
\* the params handed to it and the tree it returns
forward(type, rdap, params) ==
  [callee |-> type, params |-> params, ret |-> type_get_checks(type, body(rdap), params)]

\* faulty variant: the network arm forwards to the nameserver implementation
get_checks_network_as_nameserver(self, params) ==
  IF self.variant = "Network" THEN forward("Nameserver", self, params)
  ELSE forward(RdapResponseVariant[self.variant], self, params)

\* impl GetChecks for RdapResponse: one arm per variant, no default arm
get_checks(self, params) ==
  CASE self.variant = "Entity" -> forward("Entity", self, params)
    [] self.variant = "Domain" -> forward("Domain", self, params)
    [] self.variant = "Nameserver" -> forward("Nameserver", self, params)
    [] self.variant = "Autnum" -> forward("Autnum", self, params)
    [] self.variant = "Network" -> forward("Network", self, params)
    [] self.variant = "DomainSearchResults" -> forward("DomainSearchResults", self, params)
    [] self.variant = "EntitySearchResults" -> forward("EntitySearchResults", self, params)
    [] self.variant = "NameserverSearchResults" -> forward("NameserverSearchResults", self, params)
    [] self.variant = "ErrorResponse" -> forward("Rfc9083Error", self, params)
    [] self.variant = "Help" -> forward("Help", self, params)

\* Result<Vec<String>, TestExecutionError>
Ok(v) == [ok |-> TRUE, val |-> v]
Err(e) == [ok |-> FALSE, err |-> e]

\* enum ExtensionGroup: what each group pushes
group_ids(group) ==
  CASE group = "Gtld" ->
         << ExtensionIdDisplay.IcannRdapResponseProfile0 \o "|"
              \o ExtensionIdDisplay.IcannRdapResponseProfile1,
            ExtensionIdDisplay.IcannRdapTechnicalImplementationGuide0 \o "|"
              \o ExtensionIdDisplay.IcannRdapTechnicalImplementationGuide1 >>
    [] group = "Nro" ->
         << ExtensionIdDisplay.NroRdapProfile0, ExtensionIdDisplay.Cidr0 >>
    [] group = "NroAsn" ->
         << ExtensionIdDisplay.NroRdapProfile0,
            ExtensionIdDisplay.NroRdapProfileAsnFlat0 \o "|"
              \o ExtensionIdDisplay.NroRdapProfileAsnHierarchical0 >>

\* faulty variant: the identifiers of a group are put in front of the list
RECURSIVE push_groups_front(_, _, _)
push_groups_front(retval, groups, i) ==
  IF i > Len(groups) THEN retval
  ELSE push_groups_front(group_ids(groups[i]) \o retval, groups, i + 1)

\* for group in &options.expect_groups { match group { .. retval.push(..) } }
RECURSIVE push_groups(_, _, _)
push_groups(retval, groups, i) ==
  IF i > Len(groups) THEN retval
  ELSE push_groups(retval \o group_ids(groups[i]), groups, i + 1)

\* faulty variant: the registration test runs after the groups were put in
normalize_extension_ids_late_test(options) ==
  LET retval == push_groups(options.expect_extensions, options.expect_groups, 1)
  IN  IF /\ ~options.allow_unregistered_extensions
         /\ \E i \in 1..Len(retval) : ~from_str_is_ok(retval[i])
        THEN Err("UnregisteredExtension")
        ELSE Ok(retval)

\* normalize_extension_ids
normalize_extension_ids(options) ==
  LET retval == options.expect_extensions
  IN  IF /\ ~options.allow_unregistered_extensions
         /\ \E i \in 1..Len(retval) : ~from_str_is_ok(retval[i])
        THEN Err("UnregisteredExtension")
        ELSE Ok(push_groups(retval, options.expect_groups, 1))

\* Bounds: number of expected extensions and of expected groups.
MaxExpectExtensions == 2
MaxExpectGroups == 2

\* the expected extensions tried: registered ones and the "foo" of the tests
ExpectPool == {"foo", "cidr0", "rdap_level_0"}
ExtensionGroup == {"Gtld", "Nro", "NroAsn"}

SeqsUpTo(S, n) == UNION { [1..k -> S] : k \in 0..n }

InitEngine ==
  /\ checks = NoChecks
  /\ stack = <<>>
  /\ op = "idle"
  /\ arg = <<>>
  /\ res = <<>>

\* rdap.get_checks(params) with the params of for_rdap, or with params that
\* set the two flags otherwise
GetChecksCall ==
  /\ op = "idle"
  /\ \E rdap \in EngineResponses :
       \E params \in {for_rdap(rdap)}
                       \cup { CheckParams(d, rdap, get_type(rdap), a) : d \in BOOLEAN, a \in BOOLEAN } :
         /\ arg' = [rdap |-> rdap, params |-> params]
         /\ res' = get_checks(rdap, params)
  /\ op' = "get_checks"
  /\ UNCHANGED <<checks, stack>>

\* normalize_extension_ids(&options)
NormalizeExtensionIds ==
  /\ op = "idle"
  /\ \E exts \in SeqsUpTo(ExpectPool, MaxExpectExtensions),
        groups \in SeqsUpTo(ExtensionGroup, MaxExpectGroups),
        allow \in BOOLEAN :
       LET options == [expect_extensions |-> exts, expect_groups |-> groups,
                       allow_unregistered_extensions |-> allow]
       IN  /\ arg' = options
           /\ res' = normalize_extension_ids(options)
  /\ op' = "normalize_extension_ids"
  /\ UNCHANGED <<checks, stack>>

NextEngine == GetChecksCall \/ NormalizeExtensionIds

SpecEngine == InitEngine /\ [][NextEngine]_vars

(***************************************************************************)
(* The IANA bootstrap registries: the services of a registry are searched  *)
(* for the entry that serves a domain name, an AS number, an IP network or *)
(* an object tag.                                                          *)
(***************************************************************************)

\* str::ends_with, str::starts_with, str::is_empty
ends_with(s, t) == Len(t) <= Len(s) /\ SubSeq(s, Len(s) - Len(t) + 1, Len(s)) = t
starts_with(s, t) == Len(t) <= Len(s) /\ SubSeq(s, 1, Len(t)) = t
is_empty(s) == Len(s) = 0

\* the character at position i of a string
char_at(s, i) == SubSeq(s, i, i)

\* slice::first, slice::last, slice::get
first(v) == IF Len(v) = 0 THEN None ELSE Some(v[1])
last(v) == IF Len(v) = 0 THEN None ELSE Some(v[Len(v)])
get(v, i) == IF i + 1 \in 1..Len(v) THEN Some(v[i + 1]) ELSE None

\* faulty variant: the first entry that matches is kept
longest_update_first(longest_match, len, urls) ==
  IF longest_match = None THEN Some([len |-> len, urls |-> urls]) ELSE longest_match

\* faulty variant: an entry of the same length replaces the one kept
longest_update_last(longest_match, len, urls) ==
  IF longest_match = None \/ longest_match[1].len <= len
    THEN Some([len |-> len, urls |-> urls])
    ELSE longest_match

\* let longest = longest_match.get_or_insert_with(|| (tld.len(), urls));
\* if longest.0 < tld.len() { *longest = (tld.len(), urls) }
longest_update(longest_match, len, urls) ==
  IF longest_match = None \/ longest_match[1].len < len
    THEN Some([len |-> len, urls |-> urls])
    ELSE longest_match

\* faulty variant: an entry matches only from a label boundary on
tld_matches_label(ldh, tld) ==
  is_empty(tld) \/ ldh = tld \/ ends_with(ldh, "." \o tld)

\* ldh.ends_with(tld) || tld.is_empty()
tld_matches(ldh, tld) == ends_with(ldh, tld) \/ is_empty(tld)

\* the loops of get_dns_bootstrap_urls: service si, entry ti of its first
\* array; the result so far or the error that ends the search
RECURSIVE dns_loop(_, _, _, _, _)
dns_loop(services, ldh, si, ti, longest_match) ==
  IF si > Len(services) THEN Ok(longest_match)
  ELSE LET service == services[si]
       IN  IF first(service) = None THEN Err("EmptyService")
           ELSE LET tlds == first(service)[1]
                IN  IF ti > Len(tlds)
                      THEN dns_loop(services, ldh, si + 1, 1, longest_match)
                      ELSE IF tld_matches(ldh, tlds[ti])
                        THEN dns_loop(services, ldh, si, ti + 1,
                               longest_update(longest_match, Len(tlds[ti]), last(service)[1]))
                        ELSE dns_loop(services, ldh, si, ti + 1, longest_match)

\* get_dns_bootstrap_urls
get_dns_bootstrap_urls(bootstrap, ldh) ==
  LET found == dns_loop(bootstrap.services, ldh, 1, 1, None)
  IN  IF ~found.ok THEN found
      ELSE IF found.val = None THEN Err("NoBootstrapUrls")
      ELSE Ok(found.val[1].urls)

\* Bound: number of services of a registry.
MaxServices == 2

\* services of a domain registry: those of the tests (co.uk, uk, the root),
\* a second service for uk, a service of two entries, and services that lack
\* an array
DnsServices ==
  { << <<"co.uk">>, <<"https://registry.co.uk/">> >>,
    << <<"uk">>, <<"https://registry.uk/">> >>,
    << <<"uk">>, <<"https://other.uk/">> >>,
    << <<"">>, <<"https://example.net/">> >>,
    << <<"com", "o.uk">>, <<"https://example.com/", "http://example.com/">> >>,
    << <<"uk">> >>,
    << >> }

DnsNames == {"foo.co.uk", "foo.notuk", "foo.UK", "uk", "foo.org"}

RdapBootstrapRegistry(services) == [services |-> services]

Registries(pool) == { RdapBootstrapRegistry(s) : s \in SeqsUpTo(pool, MaxServices) }

InitIana ==
  /\ checks = NoChecks
  /\ stack = <<>>
  /\ op = "idle"
  /\ arg = <<>>
  /\ res = <<>>

\* iana.get_dns_bootstrap_urls(ldh)
GetDnsBootstrapUrls ==
  /\ op = "idle"
  /\ \E bootstrap \in Registries(DnsServices), ldh \in DnsNames :
       /\ arg' = [registry |-> bootstrap, query |-> ldh]
       /\ res' = get_dns_bootstrap_urls(bootstrap, ldh)
  /\ op' = "get_dns_bootstrap_urls"
  /\ UNCHANGED <<checks, stack>>

\* u32: a number below 2^32 = 42949 67296, kept as its decimal digits above
\* and below the fifth
u32(hi, lo) == [hi |-> hi, lo |-> lo]
u32_le(a, b) == a.hi < b.hi \/ (a.hi = b.hi /\ a.lo <= b.lo)

\* the value of a decimal digit, None for another character
digit(c) ==
  IF \E d \in 0..9 : char_at("0123456789", d + 1) = c
    THEN Some(CHOOSE d \in 0..9 : char_at("0123456789", d + 1) = c)
    ELSE None

\* n * 10 + d, None when the result is not below 2^32
RECURSIVE parse_digits(_, _, _)
parse_digits(s, i, n) ==
  IF i > Len(s) THEN Some(n)
  ELSE IF digit(char_at(s, i)) = None THEN None
  ELSE LET low == n.lo * 10 + digit(char_at(s, i))[1]
           m == u32(n.hi * 10 + low \div 100000, low % 100000)
       IN  IF u32_le(m, u32(42949, 67295)) THEN parse_digits(s, i + 1, m) ELSE None

\* str::parse::<u32>: an optional '+' and at least one digit
parse_u32(s) ==
  LET digits == IF starts_with(s, "+") THEN SubSeq(s, 2, Len(s)) ELSE s
  IN  IF is_empty(digits) THEN None ELSE parse_digits(digits, 1, u32(0, 0))

\* str::trim_start_matches(|c| matches!(c, 'a' | 'A' | 's' | 'S'))
RECURSIVE trim_start_matches(_, _)
trim_start_matches(s, chars) ==
  IF ~is_empty(s) /\ char_at(s, 1) \in chars
    THEN trim_start_matches(SubSeq(s, 2, Len(s)), chars)
    ELSE s

\* str::split(c).collect::<Vec<&str>>()
RECURSIVE split_from(_, _, _, _)
split_from(s, c, i, piece) ==
  IF i > Len(s) THEN <<piece>>
  ELSE IF char_at(s, i) = c THEN <<piece>> \o split_from(s, c, i + 1, "")
  ELSE split_from(s, c, i + 1, piece \o char_at(s, i))

split(s, c) == split_from(s, c, 1, "")

\* faulty variant: the bounds of a range are not part of it
in_range_exclusive(start_as, end_as, autnum) ==
  ~u32_le(autnum, start_as) /\ ~u32_le(end_as, autnum)

\* start_as <= autnum && end_as >= autnum
in_range(start_as, end_as, autnum) == u32_le(start_as, autnum) /\ u32_le(autnum, end_as)

\* the loops of get_asn_bootstrap_urls: service si, range ri of its first array
RECURSIVE asn_loop(_, _, _, _)
asn_loop(services, autnum, si, ri) ==
  IF si > Len(services) THEN Err("NoBootstrapUrls")
  ELSE LET service == services[si]
       IN  IF first(service) = None THEN Err("EmptyService")
           ELSE LET as_ranges == first(service)[1]
                IN  IF ri > Len(as_ranges) THEN asn_loop(services, autnum, si + 1, 1)
                    ELSE LET as_split == split(as_ranges[ri], "-")
                             start_as == parse_u32(first(as_split)[1])
                             end_as == parse_u32(last(as_split)[1])
                         IN  IF start_as = None THEN Err("InvalidBootstrapInput")
                             ELSE IF end_as = None THEN Err("InvalidBootstrapService")
                             ELSE IF in_range(start_as[1], end_as[1], autnum)
                               THEN Ok(last(service)[1])
                               ELSE asn_loop(services, autnum, si, ri + 1)

\* get_asn_bootstrap_urls
get_asn_bootstrap_urls(bootstrap, asn) ==
  LET autnum == parse_u32(trim_start_matches(asn, {"a", "A", "s", "S"}))
  IN  IF autnum = None THEN Err("InvalidBootstrapInput")
      ELSE asn_loop(bootstrap.services, autnum[1], 1, 1)

\* services of an AS number registry: those of the tests, a service whose
\* range overlaps them, the last AS number, and services that are no
\* [ranges, urls] pairs
AsnServices ==
  { << <<"64496-64496">>, <<"https://rir3.example.com/myrdap/">> >>,
    << <<"64497-64510", "65536-65551">>, <<"https://example.org/">> >>,
    << <<"64512-65534">>, <<"http://example.net/rdaprir2/", "https://example.net/rdaprir2/">> >>,
    << <<"64000-65000">>, <<"https://other.example/">> >>,
    << <<"4294967295-4294967295">>, <<"https://last.example/">> >>,
    << <<"64496-x">>, <<"https://bad.example/">> >>,
    << >> }

AsnInputs ==
  { "as64498", "AS64496", "As64510", "64497", "65536", "64511", "65535",
    "4294967295", "4294967296", "ASX", "", "64498as" }

\* iana.get_asn_bootstrap_urls(asn)
GetAsnBootstrapUrls ==
  /\ op = "idle"
  /\ \E bootstrap \in Registries(AsnServices), asn \in AsnInputs :
       /\ arg' = [registry |-> bootstrap, query |-> asn]
       /\ res' = get_asn_bootstrap_urls(bootstrap, asn)
  /\ op' = "get_asn_bootstrap_urls"
  /\ UNCHANGED <<checks, stack>>

\* a let binding: the value is computed once and then used
let(v, F(_)) == CHOOSE r \in { F(x) : x \in {v} } : TRUE

\* a decimal number of at most max (max < 100000) written in digits only
parse_dec(s, max) ==
  IF is_empty(s) \/ Len(s) > 5 THEN None
  ELSE let(parse_digits(s, 1, u32(0, 0)), LAMBDA n :
         IF n = None THEN None
         ELSE IF n[1].lo <= max THEN Some(n[1].lo) ELSE None)

\* the value of a hexadecimal digit, None for another character
hex_digit(c) ==
  IF \E d \in 0..21 : char_at("0123456789abcdefABCDEF", d + 1) = c
    THEN LET d == CHOOSE k \in 0..21 : char_at("0123456789abcdefABCDEF", k + 1) = c
         IN  Some(IF d > 15 THEN d - 6 ELSE d)
    ELSE None

\* a group of an IPv6 address: one to four hexadecimal digits
RECURSIVE parse_hex_from(_, _, _)
parse_hex_from(s, i, n) ==
  IF i > Len(s) THEN Some(n)
  ELSE IF hex_digit(char_at(s, i)) = None THEN None
  ELSE parse_hex_from(s, i + 1, n * 16 + hex_digit(char_at(s, i))[1])

parse_hex(s) == IF is_empty(s) \/ Len(s) > 4 THEN None ELSE parse_hex_from(s, 1, 0)

\* the parsed parts of an address, None when one of them is none
parse_all(parts, family) ==
  let([i \in 1..Len(parts) |->
         IF family = 4 THEN parse_dec(parts[i], 255) ELSE parse_hex(parts[i])],
      LAMBDA parsed :
        IF \E i \in 1..Len(parsed) : parsed[i] = None THEN None
        ELSE Some([i \in 1..Len(parsed) |-> parsed[i][1]]))

\* Ipv4Addr::from_str: four decimal octets
parse_ipv4addr(s) ==
  let(split(s, "."), LAMBDA parts :
    IF Len(parts) # 4 THEN None ELSE parse_all(parts, 4))

\* Ipv6Addr::from_str: eight groups, or fewer with one "::" for the zeros
parse_ipv6addr(s) ==
  let(split(s, ":"), LAMBDA raw :
  let(IF Len(raw) >= 2 /\ raw[1] = "" /\ raw[2] = "" THEN Tail(raw) ELSE raw, LAMBDA lead :
  let(IF Len(lead) >= 2 /\ lead[Len(lead)] = "" /\ lead[Len(lead) - 1] = ""
        THEN SubSeq(lead, 1, Len(lead) - 1) ELSE lead, LAMBDA parts :
    LET gaps == { i \in 1..Len(parts) : parts[i] = "" }
    IN  IF gaps = {}
          THEN IF Len(parts) # 8 THEN None ELSE parse_all(parts, 6)
          ELSE IF Cardinality(gaps) # 1 \/ Len(parts) > 8 THEN None
          ELSE LET g == CHOOSE i \in gaps : TRUE
                   before == parse_all(SubSeq(parts, 1, g - 1), 6)
                   after == parse_all(SubSeq(parts, g + 1, Len(parts)), 6)
               IN  IF before = None \/ after = None THEN None
                   ELSE Some(before[1] \o [i \in 1..(9 - Len(parts)) |-> 0] \o after[1]))))

\* Ipv4Net::from_str, Ipv6Net::from_str: address "/" prefix length
parse_net(s, family) ==
  let(split(s, "/"), LAMBDA parts :
    IF Len(parts) # 2 THEN None
    ELSE let(IF family = 4 THEN parse_ipv4addr(parts[1]) ELSE parse_ipv6addr(parts[1]),
             LAMBDA addr :
               let(parse_dec(parts[2], IF family = 4 THEN 32 ELSE 128), LAMBDA len :
                 IF addr = None \/ len = None THEN None
                 ELSE Some([addr |-> addr[1], len |-> len[1]]))))

RECURSIVE pow2(_)
pow2(n) == IF n = 0 THEN 1 ELSE 2 * pow2(n - 1)

\* the first p.len bits of q are those of p; width: bits of a part of an address
net_contains(p, q) ==
  LET width == IF Len(p.addr) = 4 THEN 8 ELSE 16
  IN  /\ Len(p.addr) = Len(q.addr)
      /\ p.len <= q.len
      /\ \A g \in 1..Len(p.addr) :
           LET left == p.len - (g - 1) * width
               k == IF left < 0 THEN 0 ELSE IF left > width THEN width ELSE left
           IN  p.addr[g] \div pow2(width - k) = q.addr[g] \div pow2(width - k)

\* PrefixMap: the values by prefix, here as the set of (prefix, value) pairs
PrefixMap_new == {}

\* faulty variant: a prefix that is in the map keeps its value
pm_insert_keep(pm, net, urls) ==
  IF \E e \in pm : e.net = net THEN pm ELSE pm \cup {[net |-> net, urls |-> urls]}

\* PrefixMap::insert: the value of a prefix that is in the map is replaced
pm_insert(pm, net, urls) ==
  { e \in pm : e.net # net } \cup {[net |-> net, urls |-> urls]}

\* faulty variant: the shortest prefix that holds the network is returned
get_lpm_shortest(pm, net) ==
  let({ e \in pm : net_contains(e.net, net) }, LAMBDA holding :
    IF holding = {} THEN None
    ELSE Some(CHOOSE e \in holding : \A f \in holding : e.net.len <= f.net.len))

\* PrefixMap::get_lpm: the longest prefix that holds the network
get_lpm(pm, net) ==
  let({ e \in pm : net_contains(e.net, net) }, LAMBDA holding :
    IF holding = {} THEN None
    ELSE Some(CHOOSE e \in holding : \A f \in holding : f.net.len <= e.net.len))

\* the loops of get_ipv4_bootstrap_urls and get_ipv6_bootstrap_urls: service
\* si, entry ci of its first array; the map built or the error that ends it
RECURSIVE ip_loop(_, _, _, _, _)
ip_loop(services, family, si, ci, pm) ==
  IF si > Len(services) THEN Ok(pm)
  ELSE LET service == services[si]
       IN  IF last(service) = None THEN Err("EmptyService")
           ELSE IF ci > Len(first(service)[1]) THEN ip_loop(services, family, si + 1, 1, pm)
           ELSE let(parse_net(first(service)[1][ci], family), LAMBDA cidr :
                  IF cidr = None THEN Err("InvalidBootstrapService")
                  ELSE let(pm_insert(pm, cidr[1], last(service)[1]), LAMBDA inserted :
                         ip_loop(services, family, si, ci + 1, inserted)))

ip_bootstrap_urls(bootstrap, ip, family) ==
  let(ip_loop(bootstrap.services, family, 1, 1, PrefixMap_new), LAMBDA pm :
    IF ~pm.ok THEN pm
    ELSE let(parse_net(ip, family), LAMBDA query :
           IF query = None THEN Err("InvalidBootstrapInput")
           ELSE let(get_lpm(pm.val, query[1]), LAMBDA net :
                  IF net = None THEN Err("NoBootstrapUrls") ELSE Ok(net[1].urls))))

\* get_ipv4_bootstrap_urls
get_ipv4_bootstrap_urls(bootstrap, ipv4) == ip_bootstrap_urls(bootstrap, ipv4, 4)

\* get_ipv6_bootstrap_urls
get_ipv6_bootstrap_urls(bootstrap, ipv6) == ip_bootstrap_urls(bootstrap, ipv6, 6)

\* services of an IPv4 registry: those of the tests, a service that lists
\* 203.0.113.0/24 again, and services that are no [prefixes, urls] pairs
Ipv4Services ==
  { << <<"198.51.100.0/24", "192.0.0.0/8">>, <<"https://rir1.example.com/myrdap/">> >>,
    << <<"203.0.113.0/24", "192.0.2.0/24">>, <<"https://example.org/">> >>,
    << <<"203.0.113.0/28">>, <<"https://example.net/rdaprir2/", "http://example.net/rdaprir2/">> >>,
    << <<"203.0.113.0/24">>, <<"https://other.example/">> >>,
    << <<"203.0.113.0">>, <<"https://bad.example/">> >>,
    << >> }

Ipv4Queries ==
  { "203.0.113.0/24", "203.0.113.0/28", "203.0.113.16/28", "203.0.113.1/32",
    "198.51.100.1/32", "192.0.2.0/24", "10.0.0.0/8", "192.0.0.0/7", "203.0.113.0" }

\* services of an IPv6 registry, chosen the same way
Ipv6Services ==
  { << <<"2001:db8::/34">>, <<"https://rir2.example.com/myrdap/">> >>,
    << <<"2001:db8:4000::/36", "2001:db8:ffff::/48">>, <<"https://example.org/">> >>,
    << <<"2001:db8:1000::/36">>, <<"https://example.net/rdaprir2/", "http://example.net/rdaprir2/">> >>,
    << <<"2001:db8::/34">>, <<"https://other.example/">> >>,
    << <<"::/0">>, <<"https://root.example/">> >>,
    << <<"2001:db8::">>, <<"https://bad.example/">> >>,
    << >> }

Ipv6Queries ==
  { "2001:db8::1/128", "2001:db8:4000::/36", "2001:db8:1000::/36", "2001:db8:1fff::/48",
    "2001:db8:ffff:1::/64", "2001:db8::/32", "2001:DB8:0:0:0:0:0:1/128", "2001:db8::1" }

\* iana.get_ipv4_bootstrap_urls(ipv4)
GetIpv4BootstrapUrls ==
  /\ op = "idle"
  /\ \E bootstrap \in Registries(Ipv4Services), ipv4 \in Ipv4Queries :
       /\ arg' = [registry |-> bootstrap, query |-> ipv4]
       /\ res' = get_ipv4_bootstrap_urls(bootstrap, ipv4)
  /\ op' = "get_ipv4_bootstrap_urls"
  /\ UNCHANGED <<checks, stack>>

\* iana.get_ipv6_bootstrap_urls(ipv6)
GetIpv6BootstrapUrls ==
  /\ op = "idle"
  /\ \E bootstrap \in Registries(Ipv6Services), ipv6 \in Ipv6Queries :
       /\ arg' = [registry |-> bootstrap, query |-> ipv6]
       /\ res' = get_ipv6_bootstrap_urls(bootstrap, ipv6)
  /\ op' = "get_ipv6_bootstrap_urls"
  /\ UNCHANGED <<checks, stack>>

\* u8::to_ascii_lowercase on a character
to_ascii_lowercase(c) ==
  IF \E k \in 1..26 : char_at("ABCDEFGHIJKLMNOPQRSTUVWXYZ", k) = c
    THEN char_at("abcdefghijklmnopqrstuvwxyz",
                 CHOOSE k \in 1..26 : char_at("ABCDEFGHIJKLMNOPQRSTUVWXYZ", k) = c)
    ELSE c

\* faulty variant: the tags are compared as they are written
eq_exact(a, b) == a = b

\* str::eq_ignore_ascii_case
eq_ignore_ascii_case(a, b) ==
  /\ Len(a) = Len(b)
  /\ \A i \in 1..Len(a) : to_ascii_lowercase(char_at(a, i)) = to_ascii_lowercase(char_at(b, i))

\* the loop of get_tag_bootstrap_urls over the services
RECURSIVE tag_loop(_, _, _)
tag_loop(services, tag, si) ==
  IF si > Len(services) THEN Err("NoBootstrapUrls")
  ELSE LET service == services[si]
       IN  IF get(service, 1) = None THEN Err("InvalidBootstrapService")
           ELSE IF first(get(service, 1)[1]) = None THEN Err("EmptyService")
           ELSE IF eq_ignore_ascii_case(first(get(service, 1)[1])[1], tag)
             THEN Ok(last(service)[1])
             ELSE tag_loop(services, tag, si + 1)

\* get_tag_bootstrap_urls
get_tag_bootstrap_urls(bootstrap, tag) == tag_loop(bootstrap.services, tag, 1)

\* services of an object tag registry: those of the tests, a service whose
\* first tag is yyyy and whose second is ZZ54, and services that lack a tag
TagServices ==
  { << <<"contact@example.com">>, <<"YYYY">>, <<"https://example.com/rdap/">> >>,
    << <<"contact@example.org">>, <<"ZZ54">>, <<"http://rdap.example.org/">> >>,
    << <<"contact@example.net">>, <<"1754">>,
       <<"https://example.net/rdap/", "http://example.net/rdap/">> >>,
    << <<"contact@other.example">>, <<"yyyy", "ZZ54">>, <<"https://other.example/">> >>,
    << <<"contact@bad.example">>, <<>>, <<"https://bad.example/">> >>,
    << <<"contact@bad.example">> >> }

Tags == {"YYYY", "yyyy", "YyYy", "zz54", "1754", "XXXX", "YYY"}

\* iana.get_tag_bootstrap_urls(tag)
GetTagBootstrapUrls ==
  /\ op = "idle"
  /\ \E bootstrap \in Registries(TagServices), tag \in Tags :
       /\ arg' = [registry |-> bootstrap, query |-> tag]
       /\ res' = get_tag_bootstrap_urls(bootstrap, tag)
  /\ op' = "get_tag_bootstrap_urls"
  /\ UNCHANGED <<checks, stack>>

\* urls.iter().find(|s| s.starts_with("https://"))
RECURSIVE find_https(_, _)
find_https(urls, i) ==
  IF i > Len(urls) THEN None
  ELSE IF starts_with(urls[i], "https://") THEN Some(urls[i])
  ELSE find_https(urls, i + 1)

\* faulty variant: the first URL is returned whatever its scheme
get_preferred_url_first(urls) ==
  IF urls = <<>> THEN Err("EmptyUrlSet") ELSE Ok(urls[1])

\* get_preferred_url
get_preferred_url(urls) ==
  IF urls = <<>> THEN Err("EmptyUrlSet")
  ELSE LET url == find_https(urls, 1)
       IN  IF url = None THEN Ok(first(urls)[1]) ELSE Ok(url[1])

\* Bound: number of URLs of a URL set.
MaxUrls == 3

Urls == { "http://foo.example", "https://foo.example", "https://bar.example",
          "httpsx://foo.example", "ftp://https://foo.example" }

\* get_preferred_url(urls)
GetPreferredUrl ==
  /\ op = "idle"
  /\ \E urls \in SeqsUpTo(Urls, MaxUrls) :
       /\ arg' = urls
       /\ res' = get_preferred_url(urls)
  /\ op' = "get_preferred_url"
  /\ UNCHANGED <<checks, stack>>

NextIana ==
  \/ GetDnsBootstrapUrls
  \/ GetAsnBootstrapUrls
  \/ GetIpv4BootstrapUrls
  \/ GetIpv6BootstrapUrls
  \/ GetTagBootstrapUrls
  \/ GetPreferredUrl

SpecIana == InitIana /\ [][NextIana]_vars

(***************************************************************************)
(* Contacts from vCard: the postal addresses of the "adr" properties of a  *)
(* jCard array.                                                            *)
(***************************************************************************)

\* serde_json::Value: a string, an array, or a value that is neither
JString(s) == [kind |-> "string", str |-> s]
JArray(v) == [kind |-> "array", items |-> v]
JNull == [kind |-> "null"]

\* Value::as_str, Value::as_array
as_str(v) == IF v.kind = "string" THEN Some(v.str) ELSE None
as_array(v) == IF v.kind = "array" THEN Some(v.items) ELSE None

\* str::to_uppercase, str::to_lowercase
RECURSIVE to_uppercase(_)
to_uppercase(s) ==
  IF is_empty(s) THEN ""
  ELSE LET c == char_at(s, 1)
           up == IF \E k \in 1..26 : char_at("abcdefghijklmnopqrstuvwxyz", k) = c
                   THEN char_at("ABCDEFGHIJKLMNOPQRSTUVWXYZ",
                                CHOOSE k \in 1..26 : char_at("abcdefghijklmnopqrstuvwxyz", k) = c)
                   ELSE c
       IN  up \o to_uppercase(SubSeq(s, 2, Len(s)))

RECURSIVE to_lowercase(_)
to_lowercase(s) ==
  IF is_empty(s) THEN ""
  ELSE to_ascii_lowercase(char_at(s, 1)) \o to_lowercase(SubSeq(s, 2, Len(s)))

\* a property of the vCard: ["adr", params, "text", fourth]; a parameter that
\* the object lacks is None
Property(params, fourth) == [params |-> params, fourth |-> fourth]

\* second.get(name)?.as_str(): get_label, get_country_code
param_str(prop, name) ==
  IF prop.params[name] = None THEN None ELSE as_str(prop.params[name][1])

get_label(prop) == param_str(prop, "label")
get_country_code(prop) == param_str(prop, "cc")

\* get_preference: preference.as_str().and_then(|s| s.parse().ok())
get_preference(prop) ==
  LET s == param_str(prop, "pref")
  IN  IF s = None THEN None
      ELSE LET n == parse_u32(s[1]) IN IF n = None THEN None ELSE Some(n[1].lo)

CONTEXTS == {"home", "work", "office", "private", "mobile", "cell"}

\* get_contexts: the "type" parameter, a string or an array of strings
get_contexts(prop) ==
  IF prop.params.type = None THEN None
  ELSE LET contexts == prop.params.type[1]
       IN  IF as_str(contexts) # None
             THEN IF to_lowercase(as_str(contexts)[1]) \in CONTEXTS
                    THEN Some(<<to_lowercase(as_str(contexts)[1])>>)
                    ELSE None
           ELSE IF as_array(contexts) = None THEN None
           ELSE LET kept == SelectSeq(as_array(contexts)[1],
                                      LAMBDA v : /\ as_str(v) # None
                                                 /\ to_lowercase(as_str(v)[1]) \in CONTEXTS)
                    lower == [i \in 1..Len(kept) |-> to_lowercase(as_str(kept[i])[1])]
                IN  IF lower = <<>> THEN None ELSE Some(lower)

\* faulty variant: the second option is preferred
option_or_second(a, b) == IF b # None THEN b ELSE a

\* Option::or
option_or(a, b) == IF a # None THEN a ELSE b

\* Option::unwrap_or_default, for a vector
unwrap_or_default(a) == IF a = None THEN <<>> ELSE a[1]

\* if let Some(x) = addr.get(i) { if let Some(s) = x.as_str() { if !s.is_empty()
text_at(addr, i) ==
  IF get(addr, i) = None THEN None
  ELSE LET s == as_str(get(addr, i)[1])
       IN  IF s = None \/ is_empty(s[1]) THEN None ELSE s

\* faulty variant: every text of two characters is a code
is_code_any_case(s) == Len(s) = 2

\* s.len() == 2 && s.to_uppercase() == s
is_code(s) == Len(s) = 2 /\ to_uppercase(s) = s

\* the street of an address: a string or an array of strings
street_of(addr) ==
  IF get(addr, 2) = None THEN <<>>
  ELSE LET street == get(addr, 2)[1]
       IN  IF as_str(street) # None
             THEN IF is_empty(as_str(street)[1]) THEN <<>> ELSE <<as_str(street)[1]>>
           ELSE IF as_array(street) = None THEN <<>>
           ELSE LET kept == SelectSeq(as_array(street)[1],
                                      LAMBDA v : as_str(v) # None /\ ~is_empty(as_str(v)[1]))
                IN  [i \in 1..Len(kept) |-> as_str(kept[i])[1]]

\* the closure of get_postal_addresses: the PostalAddress of one property
postal_address(prop) ==
  LET addr == IF as_array(prop.fourth) = None THEN <<>> ELSE as_array(prop.fourth)[1]
      pobox == text_at(addr, 0)
      appt == text_at(addr, 1)
      street_parts == pobox \o appt \o street_of(addr)
      region == text_at(addr, 4)
      country == text_at(addr, 6)
      country_code == IF country # None /\ is_code(country[1]) THEN country ELSE None
      country_name == IF country # None /\ ~is_code(country[1]) THEN country ELSE None
  IN  [ full_address |-> get_label(prop),
        contexts |-> unwrap_or_default(get_contexts(prop)),
        preference |-> get_preference(prop),
        country_code |-> option_or(get_country_code(prop), country_code),
        country_name |-> country_name,
        postal_code |-> text_at(addr, 5),
        region_name |-> IF region # None /\ ~is_code(region[1]) THEN region ELSE None,
        region_code |-> IF region # None /\ is_code(region[1]) THEN region ELSE None,
        locality |-> text_at(addr, 3),
        street_parts |-> street_parts ]

\* get_postal_addresses
get_postal_addresses(props) ==
  LET addrs == [i \in 1..Len(props) |-> postal_address(props[i])]
  IN  IF addrs = <<>> THEN None ELSE Some(addrs)

\* Bound: number of "adr" properties of a vCard.
MaxProperties == 1

\* the seventh component of an address: a code, texts that are no code, the
\* empty text, and a value that is no text
CountryValues ==
  { JString("US"), JString("us"), JString("Us"), JString("USA"), JString("Canada"),
    JString("U"), JString("12"), JString(""), JNull }

\* the value of an "adr" property: the address of the source's comment with
\* each country and with a region name, the address of the tests
\* with its street as an array, an address that ends before the country, and
\* a value that is no array
AddressValues ==
  { JArray(<< JString("Mail Stop 3"), JString("Suite 3000"), JString("123 Maple Ave"),
              JString("Quebec"), JString("QC"), JString("G1V 2M2"), country >>) :
      country \in CountryValues }
  \cup
  { JArray(<< JString("Mail Stop 3"), JString("Suite 3000"), JString("123 Maple Ave"),
              JString("Quebec"), JString("Quebec"), JString("G1V 2M2"), JString("Canada") >>),
    JArray(<< JString(""), JString("Suite 1234"),
              JArray(<<JString("4321 Rue Blue"), JString("1, Gawwn")>>),
              JString("Quebec"), JString("QC"), JString("G1V 2M2"), JString("CA") >>),
    JArray(<< JString(""), JString(""), JString("123 Maple Ave"),
              JString("Quebec"), JString("QC"), JString("G1V 2M2") >>),
    JString("123 Maple Ave") }

\* the parameters of an "adr" property: with or without "cc", and with or
\* without the others
AddressParams ==
  { [cc |-> cc, label |-> other[1], type |-> other[2], pref |-> other[3]] :
      cc \in {None, Some(JString("CA")), Some(JString("fr")), Some(JNull)},
      other \in { <<None, None, None>>,
                  <<Some(JString("123 Maple Ave, Quebec")), Some(JString("WORK")), Some(JString("1"))>>,
                  <<None, Some(JArray(<<JString("home"), JString("parcel")>>)), Some(JString("x"))>> } }

AdrProperties == { Property(params, fourth) : params \in AddressParams, fourth \in AddressValues }

InitVcard ==
  /\ checks = NoChecks
  /\ stack = <<>>
  /\ op = "idle"
  /\ arg = <<>>
  /\ res = <<>>

\* vcard.find_properties("adr").get_postal_addresses()
GetPostalAddresses ==
  /\ op = "idle"
  /\ \E props \in SeqsUpTo(AdrProperties, MaxProperties) :
       /\ arg' = props
       /\ res' = get_postal_addresses(props)
  /\ op' = "get_postal_addresses"
  /\ UNCHANGED <<checks, stack>>

NextVcard == GetPostalAddresses

SpecVcard == InitVcard /\ [][NextVcard]_vars

(***************************************************************************)
(* The test harness: execute_tests sends the query to the addresses of the *)
(* server, without and with an Origin header, and records a test run for   *)
(* each.                                                                   *)
(***************************************************************************)

\* Bound: number of addresses, of both families, in the DNS answers.
MaxAddrs == 2

V4Addrs == {"192.0.2.1", "192.0.2.2"}
V6Addrs == {"2001:db8::1", "2001:db8::2"}

\* DnsData: the addresses of the A and of the AAAA answers, in answer order
DnsDatas ==
  { d \in [v4_addrs : SeqsUpTo(V4Addrs, MaxAddrs), v6_addrs : SeqsUpTo(V6Addrs, MaxAddrs)] :
      Len(d.v4_addrs) + Len(d.v6_addrs) <= MaxAddrs }

\* TestOptions; origin_value as a header value: one that HeaderValue::from_str
\* takes and one with a line break
TestOptionses ==
  [ skip_v4 : BOOLEAN, skip_v6 : BOOLEAN, skip_origin : BOOLEAN, one_addr : BOOLEAN,
    origin_value : {"https://example.com", "bad\nvalue"},
    expect_extensions : {<<"foo">>}, expect_groups : {<<>>},
    allow_unregistered_extensions : BOOLEAN ]

\* HeaderValue::from_str(&options.origin_value).is_ok()
header_value_is_ok(value) == value # "bad\nvalue"

\* faulty variant: the first run of an address has the origin feature too
plain_features_with_origin == <<"OriginHeader">>

\* vec![] and vec![RunFeature::OriginHeader]
plain_features == <<>>
origin_features == <<"OriginHeader">>

\* TestRun::new_v4, TestRun::new_v6: a run that has not been carried out
TestRun_new(features, family, addr) ==
  [features |-> features, family |-> family, addr |-> addr, outcome |-> "Skipped"]

\* TestRun::end: the run with the outcome of its request
TestRun_end(test_run, rdap_response) ==
  [test_run EXCEPT !.outcome = IF rdap_response = "Ok" THEN "Tested" ELSE "Error"]

\* TestResults::add_test_run
add_test_run(test_results, test_run) == Append(test_results, test_run)

\* faulty variant: one_addr does not hold back the request
send_plain_any_addr(options, family, more_runs) ==
  ~(IF family = "v4" THEN options.skip_v4 ELSE options.skip_v6)

\* !options.skip_v4 && more_runs, !options.skip_v6 && more_runs
send_plain(options, family, more_runs) ==
  ~(IF family = "v4" THEN options.skip_v4 ELSE options.skip_v6) /\ more_runs

\* !options.skip_v4 && !options.skip_origin && more_runs, and for v6
send_origin(options, family, more_runs) ==
  /\ ~(IF family = "v4" THEN options.skip_v4 ELSE options.skip_v6)
  /\ ~options.skip_origin
  /\ more_runs

\* the addresses the loop of a family goes through
addrs_of(dns_data, family) == IF family = "v4" THEN dns_data.v4_addrs ELSE dns_data.v6_addrs

InitExec ==
  /\ checks = NoChecks
  /\ stack = <<>>
  /\ op = "idle"
  /\ arg = <<>>
  /\ res = <<>>

\* the state of a call that has returned
Returned(result) ==
  /\ op' = "returned"
  /\ res' = [res EXCEPT !.result = result]

\* execute_tests up to its loops: the extensions are normalized, the query URL
\* is found and its host resolved; any of these can end the call
ExecuteTests ==
  /\ op = "idle"
  /\ \E options \in TestOptionses, dns_data \in DnsDatas,
        before \in {"Ok", "UnsupportedQueryType", "NoReferralToChase", "NoHostToResolve", "NoRdata"} :
       LET extensions == normalize_extension_ids(options)
           start == [test_runs |-> <<>>, requests |-> <<>>, family |-> "v4", i |-> 1,
                     more_runs |-> TRUE, result |-> None]
       IN  /\ arg' = [options |-> options, dns_data |-> dns_data]
           /\ IF ~extensions.ok
                THEN /\ before = "Ok"
                     /\ res' = [start EXCEPT !.result = Some(extensions)]
                     /\ op' = "returned"
              ELSE IF before # "Ok"
                THEN /\ res' = [start EXCEPT !.result = Some(Err(before))]
                     /\ op' = "returned"
              ELSE /\ res' = start
                   /\ op' = "run"
  /\ UNCHANGED <<checks, stack>>

\* the first half of a turn of the loops: the test run without origin
TestRunPlain ==
  /\ op = "run"
  /\ res.i <= Len(addrs_of(arg.dns_data, res.family))
  /\ LET addr == addrs_of(arg.dns_data, res.family)[res.i]
         test_run == TestRun_new(plain_features, res.family, addr)
     IN  IF send_plain(arg.options, res.family, res.more_runs)
           THEN \/ Returned(Some(Err("Client")))
                \/ \E rdap_response \in {"Ok", "Err"} :
                     /\ res' = [res EXCEPT
                          !.requests = Append(@, [family |-> res.family, i |-> res.i,
                                                  addr |-> addr, origin |-> FALSE]),
                          !.test_runs = add_test_run(@, TestRun_end(test_run, rdap_response))]
                     /\ op' = "run_origin"
           ELSE /\ res' = [res EXCEPT !.test_runs = add_test_run(@, test_run)]
                /\ op' = "run_origin"
  /\ UNCHANGED <<checks, stack, arg>>

\* the second half: the test run with origin, then more_runs
TestRunOrigin ==
  /\ op = "run_origin"
  /\ LET addr == addrs_of(arg.dns_data, res.family)[res.i]
         test_run == TestRun_new(origin_features, res.family, addr)
         more_runs == IF arg.options.one_addr THEN FALSE ELSE res.more_runs
     IN  IF send_origin(arg.options, res.family, res.more_runs)
           THEN IF ~header_value_is_ok(arg.options.origin_value)
                  THEN Returned(Some(Err("InvalidHeader")))
                  ELSE \/ Returned(Some(Err("Client")))
                       \/ \E rdap_response \in {"Ok", "Err"} :
                            /\ res' = [res EXCEPT
                                 !.requests = Append(@, [family |-> res.family, i |-> res.i,
                                                         addr |-> addr, origin |-> TRUE]),
                                 !.test_runs = add_test_run(@, TestRun_end(test_run, rdap_response)),
                                 !.more_runs = more_runs,
                                 !.i = @ + 1]
                            /\ op' = "run"
           ELSE /\ res' = [res EXCEPT !.test_runs = add_test_run(@, test_run),
                                      !.more_runs = more_runs,
                                      !.i = @ + 1]
                /\ op' = "run"
  /\ UNCHANGED <<checks, stack, arg>>

\* the loop over the IPv4 addresses is through: let mut more_runs = true
NextFamily ==
  /\ op = "run"
  /\ res.family = "v4"
  /\ res.i > Len(arg.dns_data.v4_addrs)
  /\ res' = [res EXCEPT !.family = "v6", !.i = 1, !.more_runs = TRUE]
  /\ UNCHANGED <<checks, stack, op, arg>>

\* the loop over the IPv6 addresses is through: Ok(test_results)
ReturnResults ==
  /\ op = "run"
  /\ res.family = "v6"
  /\ res.i > Len(arg.dns_data.v6_addrs)
  /\ res' = [res EXCEPT !.result = Some(Ok(res.test_runs))]
  /\ op' = "returned"
  /\ UNCHANGED <<checks, stack, arg>>

NextExec == ExecuteTests \/ TestRunPlain \/ TestRunOrigin \/ NextFamily \/ ReturnResults

SpecExec == InitExec /\ [][NextExec]_vars

(***************************************************************************)
(* Vocabulary of the properties: nodes of a tree are named by the sequence *)
(* of child positions leading to them from the root.                       *)
(***************************************************************************)

RECURSIVE Addrs(_)
Addrs(t) ==
  {<<>>} \cup UNION { { <<k>> \o a : a \in Addrs(t.sub_checks[k]) } : k \in 1..Len(t.sub_checks) }

RECURSIVE NodeAt(_, _)
NodeAt(t, a) == IF a = <<>> THEN t ELSE NodeAt(t.sub_checks[a[1]], Tail(a))

\* "[ROOT]" followed by "/label" for the root and every node on the way to a
RECURSIVE PathOf(_, _, _)
PathOf(t, a, n) ==
  IF n = 0 THEN "[ROOT]/" \o RdapStructureDisplay[t.rdap_struct]
  ELSE PathOf(t, a, n - 1) \o "/" \o RdapStructureDisplay[NodeAt(t, SubSeq(a, 1, n)).rdap_struct]

\* a comes before b in pre-order: a is an ancestor of b, or a lies in an
\* earlier child of their last common ancestor
Before(a, b) ==
  \/ Len(a) < Len(b) /\ SubSeq(b, 1, Len(a)) = a
  \/ \E n \in 1..Len(a) :
       /\ n <= Len(b)
       /\ SubSeq(a, 1, n - 1) = SubSeq(b, 1, n - 1)
       /\ a[n] < b[n]

\* the item occurrences of t: node address and position in the node's items
Occs(t) ==
  UNION { { [addr |-> a, i |-> i] : i \in 1..Len(NodeAt(t, a).items) } : a \in Addrs(t) }

ItemAt(t, o) == NodeAt(t, o.addr).items[o.i]

\* the occurrences whose class is in the filter
Matching(t, classes) == { o \in Occs(t) : ItemAt(t, o).check_class \in classes }

\* pre-order of occurrences: node by node, and by position within a node
OccBefore(o1, o2) ==
  \/ o1.addr = o2.addr /\ o1.i < o2.i
  \/ Before(o1.addr, o2.addr)

(***************************************************************************)
(* Properties                                                              *)
(***************************************************************************)

\* C1: for every Check identifier check_item yields an item that carries the
\* identifier unchanged and exactly one class, which is one of the six classes
\* of CheckClass.
C1_CheckItemTotal ==
  op = "check_item" =>
    /\ arg \in Check
    /\ res.check = arg
    /\ res.check_class \in CheckClass
    /\ DOMAIN res = {"check_class", "check"}

C1_Witness ==
  /\ op = "check_item"
  /\ arg = "DsDatumDigestTypeIsOutOfRange"
  /\ res = [check_class |-> "StdError", check |-> "DsDatumDigestTypeIsOutOfRange"]

\* C2: traverse_checks returns true iff some item of the node or of any
\* descendant, at any depth, has a class in the filter; at every node the result
\* is the OR of the node's own matches and its children's results.
C2_FoundIffAnyMatch ==
  op = "traverse_checks" =>
    /\ res.found = (Matching(checks, arg.classes) # {})
    /\ \A a \in Addrs(checks) :
         LET n == NodeAt(checks, a)
         IN  traverse_checks(n, arg.classes, None, <<>>).found
               = \/ \E i \in 1..Len(n.items) : n.items[i].check_class \in arg.classes
                 \/ \E k \in 1..Len(n.sub_checks) :
                      traverse_checks(n.sub_checks[k], arg.classes, None, <<>>).found

\* found through a grandchild alone, whose later sibling subtree has no match
C2_Witness ==
  /\ op = "traverse_checks"
  /\ res.found
  /\ \A o \in Matching(checks, arg.classes) : Len(o.addr) = 2
  /\ Len(checks.sub_checks) = 2
  /\ \E o \in Matching(checks, arg.classes) : o.addr[1] = 1

\* C3: the visitor is called exactly once for every item whose class is in the
\* filter and never for another item; a tree holding only StdWarning items,
\* traversed for Informational, gives false and no call.
C3_FilterExact ==
  op = "traverse_checks" =>
    /\ \A j \in 1..Len(res.log) : res.log[j].item.check_class \in arg.classes
    /\ Len(res.log) = Cardinality(Matching(checks, arg.classes))
    /\ \A it \in ItemPool, a \in Addrs(checks) :
         Cardinality({ j \in 1..Len(res.log) :
                         res.log[j] = [path |-> PathOf(checks, a, Len(a)), item |-> it] })
           = Cardinality({ o \in Matching(checks, arg.classes) :
                             /\ PathOf(checks, o.addr, Len(o.addr)) = PathOf(checks, a, Len(a))
                             /\ ItemAt(checks, o) = it })
    /\ ( /\ arg.classes = {"Informational"}
         /\ \A o \in Occs(checks) : ItemAt(checks, o).check_class = "StdWarning" )
       => (~res.found /\ res.log = <<>>)

\* a root holding an Informational and a StdWarning item over a child holding a
\* StdWarning item, traversed for Informational: one call
C3_Witness ==
  /\ op = "traverse_checks"
  /\ arg.classes = {"Informational"}
  /\ Len(checks.items) = 2
  /\ checks.items[1].check_class = "StdWarning"
  /\ checks.items[2].check_class = "Informational"
  /\ Len(checks.sub_checks) = 1
  /\ Len(checks.sub_checks[1].items) = 1
  /\ checks.sub_checks[1].items[1].check_class = "StdWarning"
  /\ Len(res.log) = 1
  /\ res.log[1].item = checks.items[2]

\* C4: the path the visitor gets for an item of a node is "[ROOT]", then "/" and
\* the snake_case label of every node from the root down to that node; a root
\* Entity with a child Autnum yields "[ROOT]/entity" and "[ROOT]/entity/autnum".
C4_PathOfNode ==
  op = "traverse_checks" =>
    /\ { res.log[j] : j \in 1..Len(res.log) }
         = { [path |-> PathOf(checks, o.addr, Len(o.addr)), item |-> ItemAt(checks, o)] :
               o \in Matching(checks, arg.classes) }
    /\ ( /\ checks.rdap_struct = "Entity"
         /\ Len(checks.items) = 1
         /\ Len(checks.sub_checks) = 1
         /\ checks.sub_checks[1].rdap_struct = "Autnum"
         /\ Len(checks.sub_checks[1].items) = 1
         /\ checks.sub_checks[1].sub_checks = <<>>
         /\ arg.classes = {"Informational", "StdWarning"} )
       => [j \in 1..Len(res.log) |-> res.log[j].path]
            = <<"[ROOT]/entity", "[ROOT]/entity/autnum">>

\* three levels: the item of a grandchild is reported under the full path
C4_Witness ==
  /\ op = "traverse_checks"
  /\ \E j \in 1..Len(res.log) : res.log[j].path = "[ROOT]/entity/autnum/entity"
  /\ \E j \in 1..Len(res.log) : res.log[j].path = "[ROOT]/entity"

\* C5: the visits happen in pre-order: a node's matching items in items order
\* before any item of its children, the children in sub_checks order, each
\* child's subtree completely before the next child.
C5_PreOrder ==
  op = "traverse_checks" =>
    /\ Len(res.log) = Cardinality(Matching(checks, arg.classes))
    /\ \A o \in Matching(checks, arg.classes) :
         res.log[1 + Cardinality({ o2 \in Matching(checks, arg.classes) : OccBefore(o2, o) })]
           = [path |-> PathOf(checks, o.addr, Len(o.addr)), item |-> ItemAt(checks, o)]

\* the two different items of the root, in items order, before the item of its child
C5_Witness ==
  /\ op = "traverse_checks"
  /\ Len(checks.items) = 2
  /\ checks.items[1] # checks.items[2]
  /\ Len(checks.sub_checks) = 1
  /\ Len(res.log) = 3
  /\ res.log[1] = [path |-> PathOf(checks, <<>>, 0), item |-> checks.items[1]]
  /\ res.log[2] = [path |-> PathOf(checks, <<>>, 0), item |-> checks.items[2]]
  /\ res.log[3] = [path |-> PathOf(checks, <<1>>, 1), item |-> checks.sub_checks[1].items[1]]

\* C6: is_checked_item is true iff the identifier is that of an item of the
\* node's own items, is_checked iff that holds for a node of the list; a check
\* found only in a descendant of the given nodes gives false.
C6_OwnItemsOnly ==
  /\ op = "is_checked_item" =>
       res = (arg.check \in { checks.items[i].check : i \in 1..Len(checks.items) })
  /\ op = "is_checked" =>
       res = (arg.check \in UNION { { arg.list[k].items[i].check : i \in 1..Len(arg.list[k].items) }
                                     : k \in 1..Len(arg.list) })

\* the identifier is on a child of the tree only: is_checked on the tree is false
C6_Witness ==
  /\ op = "is_checked"
  /\ arg.list = <<checks>>
  /\ \E o \in Occs(checks) : Len(o.addr) = 1 /\ ItemAt(checks, o).check = arg.check
  /\ \A o \in Occs(checks) : ItemAt(checks, o).check = arg.check => Len(o.addr) >= 1
  /\ res = FALSE

\* C7 as stated: is_checked(check, [tree]) is true iff check is in the item list
\* of some node of the tree.
C7_AnyNodeOfTree ==
  (op = "is_checked" /\ arg.list = <<checks>>) =>
    res = (\E o \in Occs(checks) : ItemAt(checks, o).check = arg.check)

\* C7 amended: is_checked(check, [tree]) is true iff an item of the tree's root
\* node carries exactly that identifier (the same numeric code); the descendants
\* are not searched and an item of another identifier never matches, whatever
\* its class.
C7_RootNodeVerbatim ==
  (op = "is_checked" /\ arg.list = <<checks>>) =>
    /\ res = (\E i \in 1..Len(checks.items) : CheckCode[checks.items[i].check] = CheckCode[arg.check])
    /\ (\A i \in 1..Len(checks.items) : checks.items[i].check # arg.check) => ~res

\* the root holds an item of the class the queried identifier is classified as,
\* but of another identifier: no match
C7_Witness ==
  /\ op = "is_checked"
  /\ arg.list = <<checks>>
  /\ arg.check = "LinkSelfHasNoType"
  /\ \E i \in 1..Len(checks.items) :
       checks.items[i].check_class = check_item("LinkSelfHasNoType").check_class
  /\ res = FALSE

\* C8: sub(label) is the first immediate child, in sub_checks order, with that
\* label, and None when no immediate child has it, even if a deeper descendant
\* has; the node itself is never returned.
C8_SubFirstChild ==
  op = "sub" =>
    LET hits == { k \in 1..Len(checks.sub_checks) :
                    checks.sub_checks[k].rdap_struct = arg.rdap_struct }
    IN  IF hits = {} THEN res = None
        ELSE /\ res # None
             /\ res[1].ref \in hits
             /\ \A k \in hits : res[1].ref <= k
             /\ res[1].node = checks.sub_checks[res[1].ref]

\* two children carry the label and differ: the first is returned; the root
\* carries the label too
C8_Witness ==
  /\ op = "sub"
  /\ checks.rdap_struct = arg.rdap_struct
  /\ Len(checks.sub_checks) = 2
  /\ checks.sub_checks[1].rdap_struct = arg.rdap_struct
  /\ checks.sub_checks[2].rdap_struct = arg.rdap_struct
  /\ checks.sub_checks[1] # checks.sub_checks[2]
  /\ res = Some([ref |-> 1, node |-> checks.sub_checks[1]])

\* C9: for_rdap(response) has root = the response, parent_type = the type of
\* the response's own variant (and of no other variant), do_subchecks = true and
\* allow_unreg_ext = false, for every variant.
C9_ForRdapDefaults ==
  op = "for_rdap" =>
    /\ arg \in Responses
    /\ res.root = arg
    /\ res.parent_type = RdapResponseVariant[arg.variant]
    /\ \A v \in DOMAIN RdapResponseVariant :
         (res.parent_type = RdapResponseVariant[v]) = (v = arg.variant)
    /\ res.do_subchecks = TRUE
    /\ res.allow_unreg_ext = FALSE
    /\ stack = <<res>>

C9_Witness ==
  /\ op = "for_rdap"
  /\ arg = [variant |-> "ErrorResponse", id |-> 2]
  /\ res = [do_subchecks |-> TRUE, root |-> [variant |-> "ErrorResponse", id |-> 2],
            parent_type |-> "Rfc9083Error", allow_unreg_ext |-> FALSE]

\* C10: from_parent(t) yields a copy with parent_type = t and do_subchecks, root
\* and allow_unreg_ext as in the params it is called on, which stay as they
\* were; after any chain of from_parent calls these three fields equal those of
\* the top-level params.
C10_FromParentFrame ==
  /\ [](op = "from_parent" =>
          /\ Len(stack) >= 2
          /\ res = stack[Len(stack)]
          /\ res.parent_type = arg
          /\ res.do_subchecks = stack[Len(stack) - 1].do_subchecks
          /\ res.root = stack[Len(stack) - 1].root
          /\ res.allow_unreg_ext = stack[Len(stack) - 1].allow_unreg_ext)
  /\ [](\A k \in 1..Len(stack) :
          /\ stack[k].do_subchecks = stack[1].do_subchecks
          /\ stack[k].root = stack[1].root
          /\ stack[k].allow_unreg_ext = stack[1].allow_unreg_ext)
  /\ [][op' = "from_parent" =>
          /\ Len(stack') = Len(stack) + 1
          /\ SubSeq(stack', 1, Len(stack)) = stack]_vars

\* a chain of two from_parent calls under top-level params that differ from the
\* for_rdap defaults in both flags
C10_Witness ==
  /\ op = "from_parent"
  /\ Len(stack) = 3
  /\ stack[1].do_subchecks = FALSE
  /\ stack[1].allow_unreg_ext = TRUE
  /\ stack[3].parent_type # stack[2].parent_type
  /\ stack[2].parent_type # stack[1].parent_type

\* the claimed severity of a class, lowest first
Level ==
  [ Informational |-> 1, SpecificationNote |-> 2, StdWarning |-> 3,
    StdError |-> 4, Cidr0Error |-> 5, IcannError |-> 6 ]

\* C11: CheckClass has exactly the six levels Informational < SpecificationNote
\* < StdWarning < StdError < Cidr0Error < IcannError, a strict total order: of
\* two classes exactly one of less, equal, greater holds, as the levels say.
C11_ClassOrder ==
  /\ CheckClass = DOMAIN Level
  /\ Cardinality(CheckClass) = 6
  /\ CheckClass = { CheckClassDecl[i] : i \in 1..Len(CheckClassDecl) }
  /\ op = "class_cmp" =>
       /\ (res = "Less") = (Level[arg.a] < Level[arg.b])
       /\ (res = "Equal") = (arg.a = arg.b)
       /\ (res = "Greater") = (Level[arg.a] > Level[arg.b])
       /\ res = "Less" <=> class_cmp(arg.b, arg.a) = "Greater"

C11_Witness ==
  /\ op = "class_cmp"
  /\ arg = [a |-> "StdError", b |-> "Cidr0Error"]
  /\ res = "Less"

\* C12: two items are equal iff class and identifier are both equal, and a
\* sorts before b iff a's class is lower, or the classes are equal and a's
\* numeric code is lower.
C12_ItemOrder ==
  op = "item_cmp" =>
    /\ res.eq = (arg.a.check_class = arg.b.check_class /\ arg.a.check = arg.b.check)
    /\ (res.ord = "Less")
         = \/ Level[arg.a.check_class] < Level[arg.b.check_class]
           \/ /\ arg.a.check_class = arg.b.check_class
              /\ CheckCode[arg.a.check] < CheckCode[arg.b.check]
    /\ (res.ord = "Equal") = res.eq

\* the class decides although the codes are the other way round
C12_Witness ==
  /\ op = "item_cmp"
  /\ arg.a = [check_class |-> "Informational", check |-> "LdhNameDocumentation"]
  /\ arg.b = [check_class |-> "StdError", check |-> "RdapConformanceMissing"]
  /\ res = [eq |-> FALSE, ord |-> "Less"]

C14_OnePattern ==
  op = "check_item" =>
    /\ arg \in {"HandleIsEmpty", "StatusIsEmpty", "RoleIsEmpty"} => res.check_class = "StdWarning"
    /\ arg \in {"HandleIsNotString", "RoleIsString"} => res.check_class = "StdError"
    /\ arg = "UnknownRole" => res.check_class = "StdWarning"

\* C14 amended: HandleIsEmpty is StdWarning, while StatusIsEmpty and RoleIsEmpty
\* are StdError; the wrong-type findings HandleIsNotString and RoleIsString are
\* StdError and UnknownRole is StdWarning.
C14_HygieneClasses ==
  op = "check_item" =>
    /\ arg = "HandleIsEmpty" => res.check_class = "StdWarning"
    /\ arg \in {"StatusIsEmpty", "RoleIsEmpty"} => res.check_class = "StdError"
    /\ arg \in {"HandleIsNotString", "RoleIsString"} => res.check_class = "StdError"
    /\ arg = "UnknownRole" => res.check_class = "StdWarning"

C14_Witness ==
  /\ op = "check_item"
  /\ arg = "StatusIsEmpty"
  /\ res.check_class = "StdError"

\* the special-use findings of an IP address
SpecialUseFindings ==
  {"IpAddressThisNetwork", "IpAddressPrivateUse", "IpAddressSharedNat", "IpAddressLoopback",
   "IpAddressLinkLocal", "IpAddressUniqueLocal", "IpAddressDocumentationNet",
   "IpAddressReservedNet"}

\* C15: every special-use IP finding is Informational, never a warning or an
\* error class, and IpAddressMalformed is StdError; 127.0.0.1 gives
\* IpAddressLoopback as Informational, 999.1.1.1 IpAddressMalformed as StdError.
C15_SpecialUseInformational ==
  /\ SpecialUseFindings \subseteq Check
  /\ op = "check_item" =>
       /\ arg \in SpecialUseFindings =>
            /\ res.check_class = "Informational"
            /\ res.check_class \notin {"StdWarning", "StdError", "Cidr0Error", "IcannError"}
       /\ arg = "IpAddressMalformed" => res.check_class = "StdError"
  /\ op = "start_address_checks" =>
       /\ arg = <<127, 0, 0, 1>> =>
            res = <<[check_class |-> "Informational", check |-> "IpAddressLoopback"]>>
       /\ arg = <<999, 1, 1, 1>> =>
            res = <<[check_class |-> "StdError", check |-> "IpAddressMalformed"]>>
       /\ \A i \in 1..Len(res) :
            res[i].check \in SpecialUseFindings => res[i].check_class = "Informational"

C15_Witness ==
  /\ op = "start_address_checks"
  /\ arg = <<127, 0, 0, 1>>
  /\ res = <<[check_class |-> "Informational", check |-> "IpAddressLoopback"]>>

\* the secure-DNS findings: delegationSigned, zoneSigned, maxSigLife, and per
\* keyData / dsData field the wrong-type and the out-of-range finding
SecureDnsFindings ==
  {"DelegationSignedIsString", "ZoneSignedIsString", "MaxSigLifeIsString",
   "KeyDatumAlgorithmIsString", "KeyDatumAlgorithmIsOutOfRange",
   "KeyDatumFlagsIsString", "KeyDatumFlagsIsOutOfRange",
   "KeyDatumProtocolIsString", "KeyDatumProtocolIsOutOfRange",
   "DsDatumAlgorithmIsString", "DsDatumAlgorithmIsOutOfRange",
   "DsDatumKeyTagIsString", "DsDatumKeyTagIsOutOfRange",
   "DsDatumDigestTypeIsString", "DsDatumDigestTypeIsOutOfRange"}

\* C16: each secure-DNS finding is an identifier of its own with a numeric code
\* of its own in 2200..2299, no other identifier lies in that band, and each is
\* classified StdError.
C16_SecureDnsGranularity ==
  op = "check_item" =>
    /\ SecureDnsFindings = { c \in Check : code(c) \in 2200..2299 }
    /\ arg \in SecureDnsFindings =>
         /\ res.check_class = "StdError"
         /\ code(res.check) \in 2200..2299
         /\ \A other \in Check \ {arg} : code(other) # code(arg)

C16_Witness ==
  /\ op = "check_item"
  /\ arg = "DsDatumKeyTagIsOutOfRange"
  /\ code(arg) = 2216
  /\ res.check_class = "StdError"

\* the objects of a response, named like the nodes of a tree
RECURSIVE ObjAddrs(_)
ObjAddrs(obj) ==
  {<<>>} \cup UNION { { <<k>> \o a : a \in ObjAddrs(obj.nested[k]) } : k \in 1..Len(obj.nested) }

RECURSIVE ObjAt(_, _)
ObjAt(obj, a) == IF a = <<>> THEN obj ELSE ObjAt(obj.nested[a[1]], Tail(a))

\* C18: get_checks forwards every one of the ten variants to the get_checks of
\* the type it wraps, with the params it was given, and returns what that
\* returns: always a Checks tree, in which a field that cannot be validated (a
\* missing rdapConformance on the root) is a finding.
C18_ExhaustiveDispatch ==
  op = "get_checks" =>
    /\ arg.rdap.variant \in DOMAIN RdapResponseVariant
    /\ res.callee = RdapResponseVariant[arg.rdap.variant]
    /\ \A v \in DOMAIN RdapResponseVariant \ {arg.rdap.variant} :
         res.callee # RdapResponseVariant[v]
    /\ res.params = arg.params
    /\ res.ret = type_get_checks(RdapResponseVariant[arg.rdap.variant], body(arg.rdap), arg.params)
    /\ DOMAIN res.ret = {"rdap_struct", "items", "sub_checks"}
    /\ res.ret.rdap_struct \in RdapStructure
    /\ \A i \in 1..Len(res.ret.items) : res.ret.items[i].check \in Check
    /\ arg.rdap.conformance = None =>
         \E i \in 1..Len(res.ret.items) : res.ret.items[i].check = "RdapConformanceMissing"

\* a network response without rdapConformance, checked with params that differ
\* from those of for_rdap
C18_Witness ==
  /\ op = "get_checks"
  /\ arg.rdap.variant = "Network"
  /\ arg.rdap.conformance = None
  /\ arg.params # for_rdap(arg.rdap)
  /\ res.callee = "Network"
  /\ res.ret.rdap_struct = "IpNetwork"
  /\ res.ret.items = <<[check_class |-> "StdError", check |-> "RdapConformanceMissing"]>>

\* C19: a nested object that declares rdapConformance has
\* RdapConformanceInvalidParent, classified StdError, among the own items of
\* its Checks node; the root's node never has that finding.
C19_RootOnlyRule ==
  op = "get_checks" =>
    /\ arg.params.do_subchecks => Addrs(res.ret) = ObjAddrs(body(arg.rdap))
    /\ \A a \in Addrs(res.ret) :
         LET n == NodeAt(res.ret, a)
             o == ObjAt(body(arg.rdap), a)
         IN  /\ (a # <<>> /\ o.conformance # None) =>
                  \E i \in 1..Len(n.items) :
                    n.items[i] = [check_class |-> "StdError",
                                  check |-> "RdapConformanceInvalidParent"]
             /\ a = <<>> =>
                  \A i \in 1..Len(n.items) : n.items[i].check # "RdapConformanceInvalidParent"
             /\ \A i \in 1..Len(n.items) :
                  n.items[i].check = "RdapConformanceInvalidParent"
                    => n.items[i].check_class = "StdError"

\* root and an object two levels down both declare rdapConformance, the object
\* between them does not: only the node two levels down has the finding
C19_Witness ==
  /\ op = "get_checks"
  /\ arg.params.do_subchecks
  /\ arg.rdap.conformance = Some(<<"rdap_level_0">>)
  /\ Len(arg.rdap.nested) = 1
  /\ arg.rdap.nested[1].conformance = None
  /\ Len(arg.rdap.nested[1].nested) = 1
  /\ arg.rdap.nested[1].nested[1].conformance = Some(<<"rdap_level_0">>)
  /\ res.ret.items = <<>>
  /\ res.ret.sub_checks[1].items = <<>>
  /\ res.ret.sub_checks[1].sub_checks[1].items
       = <<[check_class |-> "StdError", check |-> "RdapConformanceInvalidParent"]>>

\* C20: the engine reports a declared extension that is not registered as
\* UnknownExtention, classified StdWarning, and only when allow_unreg_ext is
\* not set; normalize_extension_ids fails with UnregisteredExtension exactly
\* when allow_unregistered_extensions is false and an expected extension is not
\* a registered identifier, whatever the expected groups, and never when it is
\* true.
C20_UnregisteredGate ==
  /\ op = "get_checks" =>
       /\ \A a \in Addrs(res.ret) :
            \A i \in 1..Len(NodeAt(res.ret, a).items) :
              NodeAt(res.ret, a).items[i].check = "UnknownExtention" =>
                /\ NodeAt(res.ret, a).items[i].check_class = "StdWarning"
                /\ ~arg.params.allow_unreg_ext
       /\ ( /\ arg.rdap.conformance = Some(<<"rdap_level_0", "foo">>)
            /\ ~arg.params.allow_unreg_ext )
          => \E i \in 1..Len(res.ret.items) :
               res.ret.items[i] = [check_class |-> "StdWarning", check |-> "UnknownExtention"]
  /\ op = "normalize_extension_ids" =>
       /\ (res = [ok |-> FALSE, err |-> "UnregisteredExtension"])
            = /\ ~arg.allow_unregistered_extensions
              /\ \E i \in 1..Len(arg.expect_extensions) :
                   arg.expect_extensions[i] \notin
                     { ExtensionIdDisplay[id] : id \in DOMAIN ExtensionIdDisplay }
       /\ arg.allow_unregistered_extensions => res.ok

\* registered expectations and groups, unregistered not allowed: no rejection
\* although the groups add alternatives that are no identifiers themselves
C20_Witness ==
  /\ op = "normalize_extension_ids"
  /\ ~arg.allow_unregistered_extensions
  /\ arg.expect_extensions = <<"cidr0">>
  /\ arg.expect_groups = <<"Gtld">>
  /\ res.ok
  /\ Len(res.val) = 3

\* C21: a successful normalize_extension_ids returns the expected extensions
\* unchanged and in order, followed by two entries per expected group in group
\* order: Gtld the two ICANN alternatives, Nro the NRO profile and cidr0,
\* NroAsn the NRO profile and the asn flat/hierarchical alternative; nothing
\* else.
C21_NormalizeOrder ==
  (op = "normalize_extension_ids" /\ res.ok) =>
    LET exts == arg.expect_extensions
        groups == arg.expect_groups
        n == Len(exts)
        head == [ Gtld |-> "icann_rdap_response_profile_0|icann_rdap_response_profile_1",
                   Nro |-> "nro_rdap_profile_0",
                   NroAsn |-> "nro_rdap_profile_0" ]
        next == [ Gtld |-> "icann_rdap_technical_implementation_guide_0|icann_rdap_technical_implementation_guide_1",
                    Nro |-> "cidr0",
                    NroAsn |-> "nro_rdap_profile_asn_flat_0|nro_rdap_profile_asn_hierarchical_0" ]
    IN  /\ Len(res.val) = n + 2 * Len(groups)
        /\ \A i \in 1..n : res.val[i] = exts[i]
        /\ \A k \in 1..Len(groups) :
             /\ res.val[n + 2 * k - 1] = head[groups[k]]
             /\ res.val[n + 2 * k] = next[groups[k]]

\* two different expected extensions, one of them unregistered, and two
\* different groups
C21_Witness ==
  /\ op = "normalize_extension_ids"
  /\ arg.expect_extensions = <<"foo", "cidr0">>
  /\ arg.expect_groups = <<"NroAsn", "Gtld">>
  /\ res.ok
  /\ Len(res.val) = 6
  /\ res.val[1] = "foo"
  /\ res.val[3] = "nro_rdap_profile_0"

\* the entries of a registry: service si, position ti in its first array
Entries(services) ==
  UNION { IF services[si] = <<>> THEN {}
          ELSE { <<si, ti>> : ti \in 1..Len(services[si][1]) } : si \in 1..Len(services) }

EntryOf(services, e) == services[e[1]][1][e[2]]
UrlsOf(services, e) == services[e[1]][Len(services[e[1]])]

\* t is s without some characters at its front
IsSuffix(t, s) == \E k \in 0..Len(s) : SubSeq(s, k + 1, Len(s)) = t

\* the entries of a domain registry that match a name
DnsMatches(services, ldh) ==
  { e \in Entries(services) :
      EntryOf(services, e) = "" \/ IsSuffix(EntryOf(services, e), ldh) }

Reverse(v) == [i \in 1..Len(v) |-> v[Len(v) + 1 - i]]

\* C22: for a registry whose services each have their arrays,
\* get_dns_bootstrap_urls returns the URLs of a longest entry that matches the
\* name, the empty entry matching every name and every non-empty match
\* beating it; the longest match wins in whatever order the services stand,
\* and NoBootstrapUrls is returned when no entry matches.
C22_DnsLongestMatch ==
  (op = "get_dns_bootstrap_urls" /\ \A si \in 1..Len(arg.registry.services) :
                                      arg.registry.services[si] # <<>>) =>
    LET services == arg.registry.services
        M == DnsMatches(services, arg.query)
        Longest == { e \in M : \A f \in M : Len(EntryOf(services, f)) <= Len(EntryOf(services, e)) }
    IN  /\ M = {} => res = Err("NoBootstrapUrls")
        /\ M # {} =>
             /\ res.ok
             /\ \E e \in Longest : res.val = UrlsOf(services, e)
             /\ (\E e \in M : EntryOf(services, e) # "") =>
                  \E e \in M : EntryOf(services, e) # "" /\ res.val = UrlsOf(services, e)
        /\ Cardinality(Longest) = 1 =>
             get_dns_bootstrap_urls(RdapBootstrapRegistry(Reverse(services)), arg.query) = res

\* uk stands before co.uk in the registry and the name is foo.co.uk
C22_Witness ==
  /\ op = "get_dns_bootstrap_urls"
  /\ arg.query = "foo.co.uk"
  /\ arg.registry.services = << << <<"uk">>, <<"https://registry.uk/">> >>,
                                << <<"co.uk">>, <<"https://registry.co.uk/">> >> >>
  /\ res = Ok(<<"https://registry.co.uk/">>)

\* the entry that stands first in the registry among a set of entries
FirstEntry(E) == CHOOSE e \in E : \A f \in E : e[1] < f[1] \/ (e[1] = f[1] /\ e[2] <= f[2])

\* C30: get_dns_bootstrap_urls matches an entry when the name ends with the
\* entry's characters, case-sensitively and whether or not the match begins at
\* a label boundary, and of the longest matching entries it returns the URLs
\* of the one that stands first in the registry.
C30_PlainSuffixFirstWins ==
  (op = "get_dns_bootstrap_urls" /\ \A si \in 1..Len(arg.registry.services) :
                                      arg.registry.services[si] # <<>>) =>
    LET services == arg.registry.services
        M == DnsMatches(services, arg.query)
        Longest == { e \in M : \A f \in M : Len(EntryOf(services, f)) <= Len(EntryOf(services, e)) }
    IN  /\ res.ok = (M # {})
        /\ M # {} => res.val = UrlsOf(services, FirstEntry(Longest))

\* two services list uk, and the name ends in uk inside its last label
C30_Witness ==
  /\ op = "get_dns_bootstrap_urls"
  /\ arg.query = "foo.notuk"
  /\ arg.registry.services = << << <<"uk">>, <<"https://other.uk/">> >>,
                                << <<"uk">>, <<"https://registry.uk/">> >> >>
  /\ res = Ok(<<"https://other.uk/">>)

\* the AS number an input stands for, as <<digits above the fifth, the last
\* five digits>>; <<>> for an input that is no 32-bit number
AsnOf(asn) ==
  CASE asn = "as64498" -> <<0, 64498>>
    [] asn = "AS64496" -> <<0, 64496>>
    [] asn = "As64510" -> <<0, 64510>>
    [] asn = "64497" -> <<0, 64497>>
    [] asn = "65536" -> <<0, 65536>>
    [] asn = "64511" -> <<0, 64511>>
    [] asn = "65535" -> <<0, 65535>>
    [] asn = "4294967295" -> <<42949, 67295>>
    [] OTHER -> <<>>

\* the bounds of a range of the registry, written the same way
RangeOf(range) ==
  CASE range = "64496-64496" -> << <<0, 64496>>, <<0, 64496>> >>
    [] range = "64497-64510" -> << <<0, 64497>>, <<0, 64510>> >>
    [] range = "65536-65551" -> << <<0, 65536>>, <<0, 65551>> >>
    [] range = "64512-65534" -> << <<0, 64512>>, <<0, 65534>> >>
    [] range = "64000-65000" -> << <<0, 64000>>, <<0, 65000>> >>
    [] range = "4294967295-4294967295" -> << <<42949, 67295>>, <<42949, 67295>> >>
    [] OTHER -> <<>>

NotAbove(a, b) == a[1] < b[1] \/ (a[1] = b[1] /\ a[2] <= b[2])

\* every service of the registry has its arrays and every range is a range
AsnRegistryOk(services) ==
  \A si \in 1..Len(services) :
    /\ services[si] # <<>>
    /\ \A ri \in 1..Len(services[si][1]) : RangeOf(services[si][1][ri]) # <<>>

\* C23: get_asn_bootstrap_urls takes the AS number with or without the prefix
\* AS in any letter case and returns the URLs of the first service of the
\* registry that has a range with start <= asn <= end; InvalidBootstrapInput
\* for an input that is no 32-bit number, NoBootstrapUrls when no range holds
\* the number.
C23_AsnFirstRange ==
  op = "get_asn_bootstrap_urls" =>
    LET services == arg.registry.services
        asn == AsnOf(arg.query)
        Holding == { si \in 1..Len(services) :
                       \E ri \in 1..Len(services[si][1]) :
                         /\ NotAbove(RangeOf(services[si][1][ri])[1], asn)
                         /\ NotAbove(asn, RangeOf(services[si][1][ri])[2]) }
    IN  /\ asn = <<>> => res = Err("InvalidBootstrapInput")
        /\ (asn # <<>> /\ AsnRegistryOk(services)) =>
             /\ Holding = {} => res = Err("NoBootstrapUrls")
             /\ Holding # {} =>
                  LET si == CHOOSE k \in Holding : \A j \in Holding : k <= j
                  IN  res = Ok(services[si][Len(services[si])])

\* the number is the end of a range of the first service and inside a range of
\* the second, and the input has the prefix in mixed case
C23_Witness ==
  /\ op = "get_asn_bootstrap_urls"
  /\ arg.query = "As64510"
  /\ arg.registry.services =
       << << <<"64497-64510", "65536-65551">>, <<"https://example.org/">> >>,
          << <<"64000-65000">>, <<"https://other.example/">> >> >>
  /\ res = Ok(<<"https://example.org/">>)

\* the prefix length of an entry of the IP registries, 0 - 1 for an entry that
\* is no prefix
PrefixLength(entry) ==
  CASE entry = "198.51.100.0/24" -> 24
    [] entry = "192.0.0.0/8" -> 8
    [] entry = "203.0.113.0/24" -> 24
    [] entry = "192.0.2.0/24" -> 24
    [] entry = "203.0.113.0/28" -> 28
    [] entry = "2001:db8::/34" -> 34
    [] entry = "2001:db8:4000::/36" -> 36
    [] entry = "2001:db8:ffff::/48" -> 48
    [] entry = "2001:db8:1000::/36" -> 36
    [] entry = "::/0" -> 0
    [] OTHER -> 0 - 1

\* the entries of the IP registries that contain a queried network
HoldingPrefixes(query) ==
  CASE query = "203.0.113.0/24" -> {"203.0.113.0/24"}
    [] query = "203.0.113.0/28" -> {"203.0.113.0/24", "203.0.113.0/28"}
    [] query = "203.0.113.16/28" -> {"203.0.113.0/24"}
    [] query = "203.0.113.1/32" -> {"203.0.113.0/24", "203.0.113.0/28"}
    [] query = "198.51.100.1/32" -> {"198.51.100.0/24"}
    [] query = "192.0.2.0/24" -> {"192.0.0.0/8", "192.0.2.0/24"}
    [] query = "10.0.0.0/8" -> {}
    [] query = "192.0.0.0/7" -> {}
    [] query = "2001:db8::1/128" -> {"2001:db8::/34", "::/0"}
    [] query = "2001:DB8:0:0:0:0:0:1/128" -> {"2001:db8::/34", "::/0"}
    [] query = "2001:db8:4000::/36" -> {"2001:db8:4000::/36", "::/0"}
    [] query = "2001:db8:1000::/36" -> {"2001:db8::/34", "2001:db8:1000::/36", "::/0"}
    [] query = "2001:db8:1fff::/48" -> {"2001:db8::/34", "2001:db8:1000::/36", "::/0"}
    [] query = "2001:db8:ffff:1::/64" -> {"2001:db8:ffff::/48", "::/0"}
    [] query = "2001:db8::/32" -> {"::/0"}

\* queries that are an address without a prefix length
NoNetwork == {"203.0.113.0", "2001:db8::1"}

\* every service of the registry has its arrays and every entry is a prefix
IpRegistryOk(services) ==
  \A si \in 1..Len(services) :
    /\ services[si] # <<>>
    /\ \A ci \in 1..Len(services[si][1]) : PrefixLength(services[si][1][ci]) >= 0

\* the entries of a registry that contain the query, and the longest of them
IpHolding(services, query) ==
  { e \in Entries(services) : EntryOf(services, e) \in HoldingPrefixes(query) }

IpLongest(services, query) ==
  { e \in IpHolding(services, query) :
      \A f \in IpHolding(services, query) :
        PrefixLength(EntryOf(services, f)) <= PrefixLength(EntryOf(services, e)) }

\* the orders in which the services of a registry can stand
Reorderings(services) ==
  { [i \in 1..Len(services) |-> services[f[i]]] :
      f \in { g \in [1..Len(services) -> 1..Len(services)] :
                \A i, j \in 1..Len(services) : g[i] = g[j] => i = j } }

IpLookup(services, query) ==
  IF op = "get_ipv4_bootstrap_urls"
    THEN get_ipv4_bootstrap_urls(RdapBootstrapRegistry(services), query)
    ELSE get_ipv6_bootstrap_urls(RdapBootstrapRegistry(services), query)

\* C24 as stated: the IP lookups return the URLs of the longest registry prefix
\* that contains the queried network, the same in every order of the services,
\* and NoBootstrapUrls when no prefix contains it.
C24_OrderIndependent ==
  ( /\ op \in {"get_ipv4_bootstrap_urls", "get_ipv6_bootstrap_urls"}
    /\ IpRegistryOk(arg.registry.services)
    /\ arg.query \notin NoNetwork ) =>
    LET services == arg.registry.services
    IN  /\ IpHolding(services, arg.query) = {} => res = Err("NoBootstrapUrls")
        /\ IpHolding(services, arg.query) # {} =>
             /\ res.ok
             /\ \E e \in IpLongest(services, arg.query) : res.val = UrlsOf(services, e)
        /\ \A other \in Reorderings(services) : IpLookup(other, arg.query) = res

\* the last of a set of entries in registry order
LastEntry(E) == CHOOSE e \in E : \A f \in E : f[1] < e[1] \/ (f[1] = e[1] /\ f[2] <= e[2])

\* C24 amended: the IP lookups return the URLs of the longest registry prefix
\* that contains the queried network, those of its last listing when the
\* prefix is listed more than once; the order of the services matters only
\* between listings of that same prefix; NoBootstrapUrls when no prefix
\* contains the network.
C24_LongestPrefixLastListing ==
  ( /\ op \in {"get_ipv4_bootstrap_urls", "get_ipv6_bootstrap_urls"}
    /\ IpRegistryOk(arg.registry.services)
    /\ arg.query \notin NoNetwork ) =>
    LET services == arg.registry.services
        Longest == IpLongest(services, arg.query)
    IN  /\ IpHolding(services, arg.query) = {} => res = Err("NoBootstrapUrls")
        /\ IpHolding(services, arg.query) # {} =>
             /\ \A e, f \in Longest : EntryOf(services, e) = EntryOf(services, f)
             /\ res = Ok(UrlsOf(services, LastEntry(Longest)))
        /\ Cardinality({ UrlsOf(services, e) : e \in Longest }) <= 1 =>
             \A other \in Reorderings(services) : IpLookup(other, arg.query) = res

\* 203.0.113.0/24 is listed by two services with different URLs, and the query
\* is that /24
C24_Witness ==
  /\ op = "get_ipv4_bootstrap_urls"
  /\ arg.query = "203.0.113.0/24"
  /\ arg.registry.services =
       << << <<"203.0.113.0/24", "192.0.2.0/24">>, <<"https://example.org/">> >>,
          << <<"203.0.113.0/24">>, <<"https://other.example/">> >> >>
  /\ res = Ok(<<"https://other.example/">>)

\* a tag in lower case, for the tags of the registries and the queries
FoldedTag(tag) ==
  CASE tag \in {"YYYY", "yyyy", "YyYy"} -> "yyyy"
    [] tag \in {"ZZ54", "zz54"} -> "zz54"
    [] OTHER -> tag

\* every service of the registry has a second array with a tag in it
TagRegistryOk(services) ==
  \A si \in 1..Len(services) : Len(services[si]) >= 2 /\ services[si][2] # <<>>

\* C25: get_tag_bootstrap_urls returns the last array of the first service of
\* the registry whose tag, the first element of its second array, equals the
\* queried tag up to the case of ASCII letters; NoBootstrapUrls when no
\* service's tag does.
C25_TagFirstMatch ==
  (op = "get_tag_bootstrap_urls" /\ TagRegistryOk(arg.registry.services)) =>
    LET services == arg.registry.services
        Tagged == { si \in 1..Len(services) :
                        FoldedTag(services[si][2][1]) = FoldedTag(arg.query) }
    IN  /\ Tagged = {} => res = Err("NoBootstrapUrls")
        /\ Tagged # {} =>
             LET si == CHOOSE k \in Tagged : \A j \in Tagged : k <= j
             IN  res = Ok(services[si][Len(services[si])])

\* two services have the tag in different case, the query in a third
C25_Witness ==
  /\ op = "get_tag_bootstrap_urls"
  /\ arg.query = "YyYy"
  /\ arg.registry.services =
       << << <<"contact@other.example">>, <<"yyyy", "ZZ54">>, <<"https://other.example/">> >>,
          << <<"contact@example.com">>, <<"YYYY">>, <<"https://example.com/rdap/">> >> >>
  /\ res = Ok(<<"https://other.example/">>)

\* C26: get_preferred_url returns the first URL that starts with "https://",
\* wherever it is in the list, the first URL when none does, so always a
\* member of the list; EmptyUrlSet for the empty list.
C26_PreferHttps ==
  op = "get_preferred_url" =>
    LET Https == { i \in 1..Len(arg) : arg[i] \in {"https://foo.example", "https://bar.example"} }
    IN  /\ arg = <<>> => res = Err("EmptyUrlSet")
        /\ arg # <<>> =>
             /\ res.ok
             /\ \E i \in 1..Len(arg) : res.val = arg[i]
             /\ Https = {} => res.val = arg[1]
             /\ Https # {} => res.val = arg[CHOOSE i \in Https : \A j \in Https : i <= j]

\* the HTTPS URL is the last of three and another HTTPS URL is absent
C26_Witness ==
  /\ op = "get_preferred_url"
  /\ arg = <<"http://foo.example", "httpsx://foo.example", "https://foo.example">>
  /\ res = Ok("https://foo.example")

\* the text of the "cc" parameter of a property, <<>> when it has none
CcText(prop) ==
  IF prop.params.cc # None /\ prop.params.cc[1].kind = "string"
    THEN <<prop.params.cc[1].str>> ELSE <<>>

\* the text of the country field of a property, <<>> when the address has no
\* such field or the field is empty or no text
CountryText(prop) ==
  IF /\ prop.fourth.kind = "array"
     /\ Len(prop.fourth.items) >= 7
     /\ prop.fourth.items[7].kind = "string"
     /\ prop.fourth.items[7].str # ""
    THEN <<prop.fourth.items[7].str>> ELSE <<>>

\* the country texts of two characters of which none is in lower case
TwoUpperCase == {"US", "CA", "12"}

RECURSIVE RunsOrder(_, _)
RunsOrder(family, addrs) ==
  IF addrs = <<>> THEN <<>>
  ELSE << [family |-> family, addr |-> addrs[1], features |-> <<>>],
          [family |-> family, addr |-> addrs[1], features |-> <<"OriginHeader">>] >>
       \o RunsOrder(family, Tail(addrs))

\* C28: when execute_tests returns its results, they hold two test runs per
\* resolved address, the one without before the one with the origin feature,
\* for the IPv4 addresses in answer order and then the IPv6 addresses in
\* answer order, whether or not the request of a run was sent.
C28_TwoRunsPerAddress ==
  (op = "returned" /\ res.result # None /\ res.result[1].ok) =>
    LET runs == res.result[1].val
        order == RunsOrder("v4", arg.dns_data.v4_addrs) \o RunsOrder("v6", arg.dns_data.v6_addrs)
    IN  /\ Len(runs) = 2 * (Len(arg.dns_data.v4_addrs) + Len(arg.dns_data.v6_addrs))
        /\ Len(runs) = Len(order)
        /\ \A k \in 1..Len(runs) :
             /\ runs[k].family = order[k].family
             /\ runs[k].addr = order[k].addr
             /\ runs[k].features = order[k].features
        /\ \A k \in 1..Len(runs) :
             (runs[k].outcome = "Skipped") =
               ~\E r \in 1..Len(res.requests) :
                  /\ res.requests[r].family = runs[k].family
                  /\ res.requests[r].i = (IF runs[k].family = "v4" THEN (k + 1) \div 2
                                          ELSE (k + 1) \div 2 - Len(arg.dns_data.v4_addrs))
                  /\ res.requests[r].origin = (runs[k].features # <<>>)

\* an IPv4 and an IPv6 address, IPv4 skipped and no origin requests: four runs
\* of which one was sent
C28_Witness ==
  /\ op = "returned"
  /\ res.result # None
  /\ res.result[1].ok
  /\ arg.options.skip_v4 /\ arg.options.skip_origin /\ ~arg.options.skip_v6
  /\ arg.dns_data = [v4_addrs |-> <<"192.0.2.2">>, v6_addrs |-> <<"2001:db8::1">>]
  /\ Len(res.result[1].val) = 4
  /\ Len(res.requests) = 1
  /\ res.result[1].val[3].outcome = "Tested"

\* the requests sent so far by a call of execute_tests
Requests == IF op \in {"run", "run_origin", "returned"} THEN res.requests ELSE <<>>

====
